---- MODULE Spec2Model ----
(***************************************************************************)
(* A model of the IMA knowledge-base client, src/src/ima_client.py:        *)
(*   - the credential store: _is_token_expired, refresh_token and          *)
(*     ensure_valid_token, called by concurrent tasks (SpecToken);         *)
(*   - the stream decoder: _process_sse_stream and _parse_sse_message      *)
(*     (SpecDecode);                                                       *)
(*   - the question orchestration: ask_question_complete, init_session     *)
(*     and ask_question (Spec).                                            *)
(* Python's None is the empty tuple and a present value v the 1-tuple <<v>>.*)
(***************************************************************************)
EXTENDS Integers, Sequences, FiniteSets, TLC

VARIABLES
    now,            \* the wall clock, in seconds (datetime.now(), time.time())
    cfg,            \* self.config: the credential fields of IMAConfig
    lockHolder,     \* self._token_lock: the task holding it, or None
    lockWaiters,    \* self._token_lock: the tasks waiting for it, first come first
    tpc,            \* each calling task's position in its token operation
    top,            \* the operation each task called: "ensure" or "refresh"
    tresult,        \* the boolean each task's call returned
    sawExpired,     \* whether the task's own unlocked expiry check found the token expired
    netCalls,       \* refresh requests sent so far
    failedCalls,    \* refresh requests that ended without a complete update
    okCalls,        \* refresh requests that updated token, ttl and issue time
    reExpired,      \* a locked re-check found the token expired after a successful refresh
    answered,       \* what the refresh endpoint answered to the last request, or None
    headerArgs,     \* x_ima_cookie and current_token as texts, and for_init_session
    headers,        \* the headers _build_headers returned for them, or None
    http,           \* self.session, the ClientSession objects made, and who holds which
    body,           \* the bytes of the response body a decoder run reads
    chunkSize,      \* the size of the chunks the body arrives in (0: all at once)
    fed,            \* how many bytes of the body the decoder was given
    dec,            \* _process_sse_stream's locals and the messages it yielded
    endCause,       \* what ended the reading loop
    rawLogging,     \* the raw-log settings of self.config, and whether raw_log_dir is set
    apc,            \* the position of the task that called ask_question_complete
    question,       \* its argument question
    timeout,        \* its argument timeout, None or a number of seconds
    retryCount,     \* self.config.retry_count
    askStart,       \* start_time
    attempts,       \* the attempts the retry loop has started
    initTries,      \* the tries init_session's own retry has started in this attempt
    messages,       \* the list messages of the running _attempt_request
    lastError,      \* the exception the last attempt ended with, None when it returned
    result,         \* what ask_question_complete returned
    sessionsIssued, \* the session ids the server has handed out, numbered from 1
    session_id,     \* session_id of _attempt_request: the id init_session returned last
    requests,       \* the session ids of the question requests sent, in order
    response        \* response of ask_question: "none", "open" or "closed"

\* What the client holds besides its credentials.
clientVars == <<headerArgs, headers, http>>

tokenVars == <<now, cfg, lockHolder, lockWaiters, tpc, top, tresult, sawExpired,
               netCalls, failedCalls, okCalls, reExpired, answered, clientVars>>

decVars == <<body, chunkSize, fed, dec, endCause, rawLogging>>

\* The sessions: what init_session obtained and what the question requests carried.
sessVars == <<sessionsIssued, session_id, requests>>

askVars == <<apc, question, timeout, retryCount, askStart, attempts, initTries,
             messages, lastError, result, sessVars, response>>

vars == <<tokenVars, decVars, askVars>>

-----------------------------------------------------------------------------
(* Bounds of the model. *)
NumCallers == 2
MaxTime == 3
MaxTtlSlack == 2
MaxLines == 2
PadLines == 7
MaxChunk == 5
AskChunkSize == 40
MaxTraceBody == 26
MaxSessions == 3
SmallRawCap == 20
MaxAskTime == 4

(* Constants of the program. *)
REFRESH_MARGIN == 300
DEFAULT_VALID_TIME == 7200

None == <<>>
Some(v) == <<v>>
Val(o) == o[1]

Callers == 1..NumCallers
Times == 0..MaxTime

\* Python truthiness of an Optional[str] / Optional[int] field.
TruthyStr(o) == o # None /\ Val(o) # ""
TruthyInt(o) == o # None /\ Val(o) # 0

-----------------------------------------------------------------------------
(* The credential store. *)

\* _is_token_expired, at time t.
IsTokenExpiredLate(c, t) ==
    IF c.token_updated_at = None \/ ~TruthyInt(c.token_valid_time)
    THEN TRUE
    ELSE t >= (Val(c.token_updated_at) + Val(c.token_valid_time)) - REFRESH_MARGIN

IsTokenExpired(c, t) ==
    IF c.token_updated_at = None \/ ~TruthyInt(c.token_valid_time)
    THEN TRUE
    ELSE t > (Val(c.token_updated_at) + Val(c.token_valid_time)) - REFRESH_MARGIN

\* urllib.parse.unquote on the cookie values of the model.
Unquote(s) == IF s = "rt%3D1" THEN "rt=1" ELSE s

\* _parse_user_id_from_cookies: IMA-UID of x_ima_cookie, else user_id of cookies.
ParseUserIdFromCookies(c) ==
    IF c.x_ima_cookie.IMA_UID # None THEN c.x_ima_cookie.IMA_UID
    ELSE IF c.cookies # None /\ Val(c.cookies).user_id # None
         THEN Val(c.cookies).user_id
         ELSE None

\* _parse_refresh_token_from_cookies: IMA-REFRESH-TOKEN, else IMA-TOKEN, else
\* refresh_token of cookies; the value found is unquoted.
ParseRefreshTokenFromCookies(c) ==
    IF c.x_ima_cookie.IMA_REFRESH_TOKEN # None
    THEN Some(Unquote(Val(c.x_ima_cookie.IMA_REFRESH_TOKEN)))
    ELSE IF c.x_ima_cookie.IMA_TOKEN # None
         THEN Some(Unquote(Val(c.x_ima_cookie.IMA_TOKEN)))
         ELSE IF c.cookies # None /\ Val(c.cookies).refresh_token # None
              THEN Some(Unquote(Val(Val(c.cookies).refresh_token)))
              ELSE None

\* refresh_token, from the lock's acquisition to the request: the double check, then
\* the derivation of user id and refresh token. next is "return_true", "return_false"
\* or "post".
RefreshPrepareNoRecheck(c, t) ==
    IF ~TruthyStr(c.user_id) \/ ~TruthyStr(c.refresh_token)
    THEN LET d == [c EXCEPT !.user_id = ParseUserIdFromCookies(c),
                            !.refresh_token = ParseRefreshTokenFromCookies(c)]
         IN  [cfg |-> d,
              next |-> IF ~TruthyStr(d.user_id) \/ ~TruthyStr(d.refresh_token)
                       THEN "return_false" ELSE "post"]
    ELSE [cfg |-> c, next |-> "post"]

RefreshPrepare(c, t) ==
    IF ~IsTokenExpired(c, t) /\ c.current_token # None
    THEN [cfg |-> c, next |-> "return_true"]
    ELSE IF ~TruthyStr(c.user_id) \/ ~TruthyStr(c.refresh_token)
         THEN LET d == [c EXCEPT !.user_id = ParseUserIdFromCookies(c),
                                 !.refresh_token = ParseRefreshTokenFromCookies(c)]
              IN  [cfg |-> d,
                   next |-> IF ~TruthyStr(d.user_id) \/ ~TruthyStr(d.refresh_token)
                            THEN "return_false" ELSE "post"]
         ELSE [cfg |-> c, next |-> "post"]

\* What the refresh endpoint can answer. A reply's token is the number of the request
\* that obtained it; its token_valid_time is absent, a numeric string (num) or another
\* string.
ServerTtls == {0} \cup {REFRESH_MARGIN + k : k \in 1..MaxTtlSlack}

RefreshOutcomes ==
    {[kind |-> "transport_error"], [kind |-> "http_error"], [kind |-> "bad_json"],
     [kind |-> "reply", code |-> 1, token |-> TRUE, valid |-> None],
     [kind |-> "reply", code |-> 0, token |-> FALSE, valid |-> None],
     [kind |-> "reply", code |-> 0, token |-> TRUE, valid |-> None],
     [kind |-> "reply", code |-> 0, token |-> TRUE, valid |-> Some([num |-> FALSE, n |-> 0])]}
    \cup {[kind |-> "reply", code |-> 0, token |-> TRUE,
           valid |-> Some([num |-> TRUE, n |-> n])] : n \in ServerTtls}

\* The handler that takes every reply for a success.
ApplyRefreshResponseAnyReply(c, r, tokenId, t) ==
    IF r.kind = "reply"
    THEN [cfg |-> [c EXCEPT !.current_token = Some(tokenId),
                            !.token_valid_time = Some(DEFAULT_VALID_TIME),
                            !.token_updated_at = Some(t)],
          ok |-> TRUE]
    ELSE [cfg |-> c, ok |-> FALSE]

\* refresh_token, from the response on: [cfg, ok]. A reply with code 0 and a token
\* stores the token, then the time-to-live (int() of the string, "7200" when absent),
\* then the issue time; int() of a non-numeric string raises after the token was
\* stored, and the handler returns False.
ApplyRefreshResponse(c, r, tokenId, t) ==
    IF r.kind = "reply" /\ r.code = 0 /\ r.token
    THEN IF r.valid # None /\ ~Val(r.valid).num
         THEN [cfg |-> [c EXCEPT !.current_token = Some(tokenId)], ok |-> FALSE]
         ELSE [cfg |-> [c EXCEPT !.current_token = Some(tokenId),
                                 !.token_valid_time =
                                     Some(IF r.valid = None THEN DEFAULT_VALID_TIME
                                          ELSE Val(r.valid).n),
                                 !.token_updated_at = Some(t)],
               ok |-> TRUE]
    ELSE [cfg |-> c, ok |-> FALSE]

\* The credential states a client is constructed with: user id and refresh token
\* configured or left to be derived from x_ima_cookie and cookies.
CredentialShapes ==
    {[user_id |-> Some("u0"), refresh_token |-> Some("rt0"),
      x_ima_cookie |-> [IMA_UID |-> Some("u1"), IMA_REFRESH_TOKEN |-> Some("rt%3D1"),
                        IMA_TOKEN |-> Some("t0")],
      cookies |-> None],
     [user_id |-> None, refresh_token |-> None,
      x_ima_cookie |-> [IMA_UID |-> Some("u1"), IMA_REFRESH_TOKEN |-> Some("rt%3D1"),
                        IMA_TOKEN |-> Some("t0")],
      cookies |-> None],
     [user_id |-> None, refresh_token |-> None,
      x_ima_cookie |-> [IMA_UID |-> Some("u1"), IMA_REFRESH_TOKEN |-> None,
                        IMA_TOKEN |-> None],
      cookies |-> None],
     [user_id |-> Some("u0"), refresh_token |-> None,
      x_ima_cookie |-> [IMA_UID |-> None, IMA_REFRESH_TOKEN |-> None,
                        IMA_TOKEN |-> Some("t0")],
      cookies |-> Some([user_id |-> Some("u2"), refresh_token |-> Some("rt2")])],
     [user_id |-> Some("u0"), refresh_token |-> None,
      x_ima_cookie |-> [IMA_UID |-> None, IMA_REFRESH_TOKEN |-> None,
                        IMA_TOKEN |-> None],
      cookies |-> None]}

InitialConfigs ==
    {[user_id |-> cr.user_id, refresh_token |-> cr.refresh_token,
      x_ima_cookie |-> cr.x_ima_cookie, cookies |-> cr.cookies,
      current_token |-> k, token_valid_time |-> tv.ttl, token_updated_at |-> tv.at] :
        cr \in CredentialShapes,
        k \in {None, Some(0)},
        tv \in {[ttl |-> None, at |-> None]}
               \cup {[ttl |-> Some(n), at |-> Some(0)] : n \in ServerTtls}}

\* asyncio.Lock: free when no task holds it.
LockFreeIgnoringHolder == TRUE

LockFree == lockHolder = None

\* ensure_valid_token's own check, made before any lock is taken.
EnsureNeedsRefreshAlways(c, t) == TRUE

EnsureNeedsRefresh(c, t) == IsTokenExpired(c, t)

\* refresh_token that sends its request also when user id or refresh token are
\* missing.
EnterRefreshUnguarded(c) ==
    LET p == RefreshPrepare(cfg, now)
    IN  /\ cfg' = p.cfg
        /\ reExpired' = (reExpired \/ (okCalls > 0 /\ IsTokenExpired(cfg, now)))
        /\ IF p.next # "return_true"
           THEN /\ lockHolder' = Some(c)
                /\ tpc' = [tpc EXCEPT ![c] = "net"]
                /\ netCalls' = netCalls + 1
                /\ tresult' = tresult
           ELSE /\ lockHolder' = lockHolder
                /\ tpc' = [tpc EXCEPT ![c] = "done"]
                /\ netCalls' = netCalls
                /\ tresult' = [tresult EXCEPT ![c] = Some(TRUE)]

\* refresh_token from the moment task c holds the lock up to its first suspension (the
\* request) or its return, which releases the lock.
EnterRefresh(c) ==
    LET p == RefreshPrepare(cfg, now)
    IN  /\ cfg' = p.cfg
        /\ reExpired' = (reExpired \/ (okCalls > 0 /\ IsTokenExpired(cfg, now)))
        /\ IF p.next = "post"
           THEN /\ lockHolder' = Some(c)
                /\ tpc' = [tpc EXCEPT ![c] = "net"]
                /\ netCalls' = netCalls + 1
                /\ tresult' = tresult
           ELSE /\ lockHolder' = lockHolder
                /\ tpc' = [tpc EXCEPT ![c] = "done"]
                /\ netCalls' = netCalls
                /\ tresult' = [tresult EXCEPT ![c] = Some(p.next = "return_true")]

\* async with self._token_lock: entered at once when the lock is free and nobody
\* waits, else the task queues behind the waiters.
EnterOrWait(c) ==
    IF LockFree /\ lockWaiters = <<>>
    THEN EnterRefresh(c) /\ lockWaiters' = lockWaiters
    ELSE /\ tpc' = [tpc EXCEPT ![c] = "wait"]
         /\ lockWaiters' = Append(lockWaiters, c)
         /\ UNCHANGED <<cfg, lockHolder, netCalls, tresult, reExpired>>

\* A task calls ensure_valid_token.
CallEnsureValidToken(c) ==
    /\ tpc[c] = "idle"
    /\ top' = [top EXCEPT ![c] = "ensure"]
    /\ IF EnsureNeedsRefresh(cfg, now)
       THEN /\ sawExpired' = [sawExpired EXCEPT ![c] = TRUE]
            /\ EnterOrWait(c)
       ELSE /\ tpc' = [tpc EXCEPT ![c] = "done"]
            /\ tresult' = [tresult EXCEPT ![c] = Some(TRUE)]
            /\ UNCHANGED <<sawExpired, cfg, lockHolder, lockWaiters, netCalls, reExpired>>
    /\ UNCHANGED <<now, failedCalls, okCalls, answered>>
    /\ UNCHANGED <<decVars, askVars, clientVars>>

\* A task calls refresh_token directly (the forced refresh of ask_question_complete).
CallRefreshToken(c) ==
    /\ tpc[c] = "idle"
    /\ top' = [top EXCEPT ![c] = "refresh"]
    /\ EnterOrWait(c)
    /\ UNCHANGED <<now, sawExpired, failedCalls, okCalls, answered>>
    /\ UNCHANGED <<decVars, askVars, clientVars>>

\* The lock is handed to the first waiting task.
LockGranted(c) ==
    /\ tpc[c] = "wait"
    /\ LockFree
    /\ lockWaiters # <<>>
    /\ Head(lockWaiters) = c
    /\ lockWaiters' = Tail(lockWaiters)
    /\ EnterRefresh(c)
    /\ UNCHANGED <<now, top, sawExpired, failedCalls, okCalls, answered>>
    /\ UNCHANGED <<decVars, askVars, clientVars>>

\* The refresh request of task c is answered; the handler returns and the lock is
\* released.
RefreshResponse(c) ==
    /\ tpc[c] = "net"
    /\ \E r \in RefreshOutcomes :
          LET a == ApplyRefreshResponse(cfg, r, netCalls, now)
          IN  /\ cfg' = a.cfg
              /\ tresult' = [tresult EXCEPT ![c] = Some(a.ok)]
              /\ okCalls' = IF a.ok THEN okCalls + 1 ELSE okCalls
              /\ failedCalls' = IF a.ok THEN failedCalls ELSE failedCalls + 1
              /\ answered' = Some(r)
    /\ tpc' = [tpc EXCEPT ![c] = "done"]
    /\ lockHolder' = IF lockHolder = Some(c) THEN None ELSE lockHolder
    /\ UNCHANGED <<now, lockWaiters, top, sawExpired, netCalls, reExpired>>
    /\ UNCHANGED <<decVars, askVars, clientVars>>

\* Time passes.
TokenTick ==
    /\ now < MaxTime
    /\ now' = now + 1
    /\ UNCHANGED <<cfg, lockHolder, lockWaiters, tpc, top, tresult, sawExpired,
                   netCalls, failedCalls, okCalls, reExpired, answered>>
    /\ UNCHANGED <<decVars, askVars, clientVars>>

-----------------------------------------------------------------------------
(* Text. A str is a sequence of code points and a bytes value a sequence of  *)
(* numbers 0..255; the literals below give the characters in a comment.      *)

\* U+FFFD, what errors="replace" puts for an undecodable byte sequence.
ReplacementChar == 65533

\* str.isspace() on the code points below U+1680.
IsSpace(c) == c \in {9, 10, 11, 12, 13, 28, 29, 30, 31, 32, 133, 160}

\* The least member of a non-empty set of indices.
MinOf(S) == CHOOSE k \in S : \A j \in S : k <= j

MaxOf(S) == CHOOSE k \in S : \A j \in S : j <= k

\* str.strip(): from the first element that is no space to the last one.
Strip(s) ==
    LET S == {k \in 1..Len(s) : ~IsSpace(s[k])}
    IN  IF S = {} THEN <<>> ELSE SubSeq(s, MinOf(S), MaxOf(S))

\* s[i-1:j], the part of s from its i-th to its j-th element, cut at the end of s.
Slice(s, i, j) == SubSeq(s, i, IF j > Len(s) THEN Len(s) ELSE j)

\* str.startswith(p)
StartsWith(s, p) == Len(s) >= Len(p) /\ SubSeq(s, 1, Len(p)) = p

\* The index of the first c in s at or after i, 0 when there is none.
IndexOf(s, c, i) ==
    LET S == {k \in i..Len(s) : s[k] = c}
    IN  IF S = {} THEN 0 ELSE MinOf(S)

\* p in s, for two strs.
Contains(s, p) == \E k \in 1..(Len(s) - Len(p) + 1) : SubSeq(s, k, k + Len(p) - 1) = p

\* str.split('\n') of the part of s from index i on: the pieces between consecutive
\* line feeds.
RECURSIVE SplitLines(_, _)
SplitLines(s, i) ==
    LET k == IndexOf(s, 10, i)
    IN  IF k = 0 THEN <<SubSeq(s, i, Len(s))>>
        ELSE <<SubSeq(s, i, k - 1)>> \o SplitLines(s, k + 1)

\* codecs.getincrementaldecoder("utf-8")(errors="replace"): the number of continuation
\* bytes a lead byte asks for (0: not a lead byte), and the values its k-th
\* continuation byte may take.
NeedCont(b) ==
    IF b \in 194..223 THEN 1
    ELSE IF b \in 224..239 THEN 2
    ELSE IF b \in 240..244 THEN 3 ELSE 0

ContRange(lead, k) ==
    IF k > 1 THEN 128..191
    ELSE IF lead = 224 THEN 160..191
    ELSE IF lead = 237 THEN 128..159
    ELSE IF lead = 240 THEN 144..191
    ELSE IF lead = 244 THEN 128..143
    ELSE 128..191

\* How many of the continuation bytes of the lead byte at i are there and valid,
\* counting from the k-th.
RECURSIVE GoodCont(_, _, _)
GoodCont(bs, i, k) ==
    IF k > NeedCont(bs[i]) \/ i + k > Len(bs) THEN k - 1
    ELSE IF bs[i + k] \in ContRange(bs[i], k) THEN GoodCont(bs, i, k + 1) ELSE k - 1

CodePoint(bs, i) ==
    LET n == NeedCont(bs[i])
    IN  IF n = 1 THEN (bs[i] - 192) * 64 + (bs[i + 1] - 128)
        ELSE IF n = 2
             THEN (bs[i] - 224) * 4096 + (bs[i + 1] - 128) * 64 + (bs[i + 2] - 128)
             ELSE (bs[i] - 240) * 262144 + (bs[i + 1] - 128) * 4096
                      + (bs[i + 2] - 128) * 64 + (bs[i + 3] - 128)

\* A character starts at i: no lead byte before i takes the byte at i as one of its
\* continuation bytes (a lead byte is never a continuation byte).
IsUnitStart(bs, i) ==
    ~\E j \in (i - 3)..(i - 1) :
        j >= 1 /\ NeedCont(bs[j]) > 0 /\ GoodCont(bs, j, 1) >= i - j

\* The lead byte at i lacks continuation bytes only because the input ends there.
CutShort(bs, i) ==
    /\ NeedCont(bs[i]) > 0
    /\ GoodCont(bs, i, 1) < NeedCont(bs[i])
    /\ i + GoodCont(bs, i, 1) = Len(bs)

\* The character decoded from the bytes starting at i.
UnitChar(bs, i) ==
    IF bs[i] < 128 THEN bs[i]
    ELSE IF NeedCont(bs[i]) > 0 /\ GoodCont(bs, i, 1) = NeedCont(bs[i])
         THEN CodePoint(bs, i)
         ELSE ReplacementChar

\* The characters decoded from the bytes lo..hi, a sequence cut short at the end of
\* the input left out when it is held back.
RECURSIVE DecodeRange(_, _, _, _)
DecodeRange(bs, lo, hi, final) ==
    IF lo > hi THEN <<>>
    ELSE IF lo = hi
         THEN IF IsUnitStart(bs, lo) /\ (final \/ ~CutShort(bs, lo))
              THEN <<UnitChar(bs, lo)>>
              ELSE <<>>
         ELSE DecodeRange(bs, lo, (lo + hi) \div 2, final)
                  \o DecodeRange(bs, (lo + hi) \div 2 + 1, hi, final)

\* decoder.decode(chunk, final) of a decoder holding back the bytes pending: [text,
\* pending]. A byte sequence cut short by the end of the input is held back in
\* pending (final = FALSE) or replaced (final = TRUE).
Utf8Decode(pending, chunk, final) ==
    LET From(bs) ==
            LET held == {i \in (Len(bs) - 2)..Len(bs) :
                            i >= 1 /\ ~final /\ IsUnitStart(bs, i) /\ CutShort(bs, i)}
            IN  [text    |-> DecodeRange(bs, 1, Len(bs), final),
                 pending |-> IF held = {} THEN <<>> ELSE SubSeq(bs, MinOf(held), Len(bs))]
    IN  From(pending \o chunk)

-----------------------------------------------------------------------------
(* json.loads, on the JSON texts of the model: objects, arrays, strings with the    *)
(* simple escapes, integers, true, false, null, blanks between tokens. A parsed  *)
(* value is a record: t its type, and under a field of its own its Python value (a *)
(* str its code points, an object its key/value pairs in order, a later pair         *)
(* overriding an earlier one).                                                       *)

\* The result of parsing a value at some place: ok, the value v, the place after it.
JFail == [ok |-> FALSE, v |-> [t |-> "null"], next |-> 0]
JOk(v, next) == [ok |-> TRUE, v |-> v, next |-> next]

RECURSIVE JSkipWs(_, _)
JSkipWs(s, i) ==
    IF i <= Len(s) /\ s[i] \in {32, 9, 10, 13} THEN JSkipWs(s, i + 1) ELSE i

\* The character that stands after a backslash in a string, and the one it means:
\* \" \\ \/ \b \f \n \r \t (no \u escapes).
JEscape ==
    [c \in {34, 92, 47, 98, 102, 110, 114, 116} |->
        IF c = 98 THEN 8 ELSE IF c = 102 THEN 12 ELSE IF c = 110 THEN 10
        ELSE IF c = 114 THEN 13 ELSE IF c = 116 THEN 9 ELSE c]

\* The character at p of a string that starts at lo stands after a backslash that
\* begins an escape: the backslashes right before p are odd in number.
JEscaped(s, lo, p) ==
    LET run == MaxOf({k \in 0..(p - lo) : \A m \in (p - k)..(p - 1) : s[m] = 92})
    IN  run % 2 = 1

\* The characters that the part lo..hi of a string starting at from stands for.
RECURSIVE JUnescape(_, _, _, _)
JUnescape(s, from, lo, hi) ==
    IF lo > hi THEN <<>>
    ELSE IF lo = hi
         THEN IF JEscaped(s, from, lo) THEN <<JEscape[s[lo]]>>
              ELSE IF s[lo] = 92 THEN <<>> ELSE <<s[lo]>>
         ELSE JUnescape(s, from, lo, (lo + hi) \div 2)
                  \o JUnescape(s, from, (lo + hi) \div 2 + 1, hi)

\* The string from i on, up to its closing quote: the first quote not escaped. No
\* control character may stand in it, and after a backslash only a known escape.
JStringBody(s, i) ==
    LET quotes == {j \in i..Len(s) : s[j] = 34 /\ ~JEscaped(s, i, j)}
        Closed(j) ==
            IF \A p \in i..(j - 1) :
                   IF JEscaped(s, i, p) THEN s[p] \in DOMAIN JEscape ELSE s[p] >= 32
            THEN JOk([t |-> "str", s |-> JUnescape(s, i, i, j - 1)], j + 1)
            ELSE JFail
    IN  IF quotes = {} THEN JFail ELSE Closed(MinOf(quotes))

RECURSIVE JDigits(_, _, _)
JDigits(s, i, acc) ==
    IF i <= Len(s) /\ s[i] \in 48..57
    THEN JDigits(s, i + 1, acc * 10 + (s[i] - 48))
    ELSE [n |-> acc, next |-> i]

\* An integer: an optional minus sign, then 0 or digits not starting with 0.
JNumber(s, i) ==
    LET neg == s[i] = 45
        j == IF neg THEN i + 1 ELSE i
    IN  IF j > Len(s) \/ s[j] \notin 48..57 THEN JFail
        ELSE IF s[j] = 48 THEN JOk([t |-> "num", n |-> 0], j + 1)
        ELSE LET d == JDigits(s, j, 0)
             IN  JOk([t |-> "num", n |-> IF neg THEN 0 - d.n ELSE d.n], d.next)

RECURSIVE JValue(_, _)
RECURSIVE JArrayItems(_, _, _)
RECURSIVE JObjectPairs(_, _, _)

\* The items of an array from i on, one item expected at i.
JArrayItems(s, i, acc) ==
    LET End(xs, j) ==
            IF j > Len(s) THEN JFail
            ELSE IF s[j] = 44 THEN JArrayItems(s, j + 1, xs)
            ELSE IF s[j] = 93 THEN JOk([t |-> "arr", a |-> xs], j + 1)
            ELSE JFail
        After(e) == IF ~e.ok THEN JFail ELSE End(Append(acc, e.v), JSkipWs(s, e.next))
    IN  After(JValue(s, JSkipWs(s, i)))

\* The pairs of an object from i on, one pair expected at i.
JObjectPairs(s, i, acc) ==
    LET End(ps, j) ==
            IF j > Len(s) THEN JFail
            ELSE IF s[j] = 44 THEN JObjectPairs(s, j + 1, ps)
            ELSE IF s[j] = 125 THEN JOk([t |-> "obj", o |-> ps], j + 1)
            ELSE JFail
        AfterValue(name, e) ==
            IF ~e.ok THEN JFail
            ELSE End(Append(acc, [k |-> name, v |-> e.v]), JSkipWs(s, e.next))
        Colon(name, c) ==
            IF c > Len(s) \/ s[c] # 58 THEN JFail
            ELSE AfterValue(name, JValue(s, JSkipWs(s, c + 1)))
        AfterKey(key) ==
            IF ~key.ok THEN JFail ELSE Colon(key.v.s, JSkipWs(s, key.next))
        Key(k) ==
            IF k > Len(s) \/ s[k] # 34 THEN JFail
            ELSE AfterKey(JStringBody(s, k + 1))
    IN  Key(JSkipWs(s, i))

JValue(s, i) ==
    IF i > Len(s) THEN JFail
    ELSE IF s[i] = 34 THEN JStringBody(s, i + 1)
    ELSE IF s[i] = 45 \/ s[i] \in 48..57 THEN JNumber(s, i)
    ELSE IF s[i] = 91
         THEN LET j == JSkipWs(s, i + 1)
              IN  IF j <= Len(s) /\ s[j] = 93 THEN JOk([t |-> "arr", a |-> <<>>], j + 1)
                  ELSE JArrayItems(s, i + 1, <<>>)
    ELSE IF s[i] = 123
         THEN LET j == JSkipWs(s, i + 1)
              IN  IF j <= Len(s) /\ s[j] = 125 THEN JOk([t |-> "obj", o |-> <<>>], j + 1)
                  ELSE JObjectPairs(s, i + 1, <<>>)
    ELSE IF Slice(s, i, i + 3) = <<110, 117, 108, 108>> THEN JOk([t |-> "null"], i + 4)
    ELSE IF Slice(s, i, i + 3) = <<116, 114, 117, 101>> THEN JOk([t |-> "bool", b |-> TRUE], i + 4)
    ELSE IF Slice(s, i, i + 4) = <<102, 97, 108, 115, 101>> THEN JOk([t |-> "bool", b |-> FALSE], i + 5)
    ELSE JFail

\* json.loads(s): [ok, v]; ok = FALSE stands for JSONDecodeError.
JsonLoads(s) ==
    LET Whole(r) ==
            IF r.ok /\ JSkipWs(s, r.next) > Len(s) THEN [ok |-> TRUE, v |-> r.v]
            ELSE [ok |-> FALSE, v |-> [t |-> "null"]]
    IN  Whole(JValue(s, JSkipWs(s, 1)))

\* Python truthiness of a parsed value.
JTruthy(x) ==
    IF x.t = "null" THEN FALSE
    ELSE IF x.t = "bool" THEN x.b
    ELSE IF x.t = "num" THEN x.n # 0
    ELSE IF x.t = "str" THEN x.s # <<>>
    ELSE IF x.t = "arr" THEN x.a # <<>>
    ELSE x.o # <<>>

\* key in d and d[key] / d.get(key), for an object d: the last pair with that key.
RECURSIVE JFind(_, _, _)
JFind(ps, key, i) ==
    IF i < 1 THEN 0 ELSE IF ps[i].k = key THEN i ELSE JFind(ps, key, i - 1)

JHas(d, key) == JFind(d.o, key, Len(d.o)) # 0
JGet(d, key) == d.o[JFind(d.o, key, Len(d.o))].v

\* key in x for a parsed value x that is no object: substring of a str, element of a
\* list. On a number, null or a boolean the test raises TypeError.
JIn(x, key) ==
    IF x.t = "obj" THEN JHas(x, key)
    ELSE IF x.t = "str" THEN Contains(x.s, key)
    ELSE IF x.t = "arr" THEN \E i \in 1..Len(x.a) : x.a[i].t = "str" /\ x.a[i].s = key
    ELSE FALSE

-----------------------------------------------------------------------------
(* The stream decoder: the strings the code tests for.                        *)

\* The keys the code looks up, each the code points of its name.
K ==
    [msgs |-> <<109, 115, 103, 115>>,
     content |-> <<99, 111, 110, 116, 101, 110, 116>>,
     Text |-> <<84, 101, 120, 116>>,
     type |-> <<116, 121, 112, 101>>,
     knowledgeBase |-> <<107, 110, 111, 119, 108, 101, 100, 103, 101, 66, 97, 115, 101>>,
     processing |-> <<112, 114, 111, 99, 101, 115, 115, 105, 110, 103>>,
     stage |-> <<115, 116, 97, 103, 101>>,
     medias |-> <<109, 101, 100, 105, 97, 115>>,
     question |-> <<113, 117, 101, 115, 116, 105, 111, 110>>,
     answer |-> <<97, 110, 115, 119, 101, 114>>,
     context_refs |-> <<99, 111, 110, 116, 101, 120, 116, 95, 114, 101, 102, 115>>,
     id |-> <<105, 100>>,
     title |-> <<116, 105, 116, 108, 101>>,
     subtitle |-> <<115, 117, 98, 116, 105, 116, 108, 101>>,
     introduction |-> <<105, 110, 116, 114, 111, 100, 117, 99, 116, 105, 111, 110>>,
     timestamp |-> <<116, 105, 109, 101, 115, 116, 97, 109, 112>>,
     knowledge_base_info |-> <<107, 110, 111, 119, 108, 101, 100, 103, 101, 95, 98, 97, 115, 101, 95, 105, 110, 102, 111>>,
     name |-> <<110, 97, 109, 101>>,
     DATA_PREFIX |-> <<100, 97, 116, 97, 58, 32>>,
     EVENT_PREFIX |-> <<101, 118, 101, 110, 116, 58, 32>>,
     ID_PREFIX |-> <<105, 100, 58, 32>>,
     DONE_MARK |-> <<91, 68, 79, 78, 69, 93>>]

-----------------------------------------------------------------------------
(* Messages. A message's content is [str |-> code points], [pystr |-> v] for     *)
(* Python's str(v) of a parsed value v, or [lit |-> name] for a fixed text of    *)
(* the code.                                                                     *)

TextMessage(content, raw) ==
    [type |-> "text", content |-> [str |-> content], text |-> [str |-> content],
     raw |-> Some(raw)]

SystemMessage(content, raw) ==
    [type |-> "system", content |-> content, raw |-> Some(raw)]

KnowledgeBaseMessage(content, processing, stage, medias, raw) ==
    [type |-> "knowledgeBase", content |-> content, processing |-> processing,
     stage |-> stage, medias |-> medias, raw |-> raw]

\* What a parse of one line ends in: no message, a message, an exception of the
\* classes the callers catch per line (json.JSONDecodeError, KeyError, ValueError,
\* pydantic's ValidationError among them), or another exception (TypeError,
\* AttributeError).
PNone == [kind |-> "none"]
PMsg(m) == [kind |-> "msg", msg |-> m]
PValueError == [kind |-> "value_error"]
POtherError == [kind |-> "other_error"]

\* An optional str field of a pydantic model, given as a key of d: absent, null or a
\* string.
ValidOptStr(d, key) == ~JHas(d, key) \/ JGet(d, key).t \in {"str", "null"}
ValidOptInt(d, key) == ~JHas(d, key) \/ JGet(d, key).t \in {"num", "null"}
OptStrOf(d, key) ==
    IF JHas(d, key) /\ JGet(d, key).t = "str" THEN Some(JGet(d, key).s) ELSE None
OptIntOf(d, key) ==
    IF JHas(d, key) /\ JGet(d, key).t = "num" THEN Some(JGet(d, key).n) ELSE None

\* MediaInfo(**m): id, type and title are required; of the optional fields the ones
\* _extract_knowledge_info reads are kept.
ValidKnowledgeBaseInfo(d, key) ==
    \/ ~JHas(d, key)
    \/ JGet(d, key).t = "null"
    \/ /\ JGet(d, key).t = "obj"
       /\ JHas(JGet(d, key), K.id) /\ JGet(JGet(d, key), K.id).t = "str"
       /\ JHas(JGet(d, key), K.name) /\ JGet(JGet(d, key), K.name).t = "str"

ValidMedia(m) ==
    /\ m.t = "obj"
    /\ JHas(m, K.id) /\ JGet(m, K.id).t = "str"
    /\ JHas(m, K.type) /\ JGet(m, K.type).t = "num"
    /\ JHas(m, K.title) /\ JGet(m, K.title).t = "str"
    /\ ValidOptStr(m, K.subtitle) /\ ValidOptStr(m, K.introduction)
    /\ ValidOptInt(m, K.timestamp)
    /\ ValidKnowledgeBaseInfo(m, K.knowledge_base_info)

MediaInfo(m) ==
    [id |-> JGet(m, K.id).s, title |-> JGet(m, K.title).s,
     subtitle |-> OptStrOf(m, K.subtitle), introduction |-> OptStrOf(m, K.introduction),
     timestamp |-> OptIntOf(m, K.timestamp),
     knowledge_base |->
         IF JHas(m, K.knowledge_base_info) /\ JGet(m, K.knowledge_base_info).t = "obj"
         THEN Some(JGet(JGet(m, K.knowledge_base_info), K.name).s) ELSE None]

\* KnowledgeBaseMessage(**json_data) for an object whose type is 'knowledgeBase': the
\* content is the object's, else its processing text, else the fixed search notice;
\* pydantic rejects (ValidationError) a field of the wrong type.
ParseKnowledgeBase(x) ==
    LET content == IF JHas(x, K.content) THEN JGet(x, K.content)
                   ELSE IF JHas(x, K.processing) THEN JGet(x, K.processing)
                   ELSE [t |-> "null"]
        fixed == ~JHas(x, K.content) /\ ~JHas(x, K.processing)
        medias == IF JHas(x, K.medias) THEN JGet(x, K.medias) ELSE [t |-> "null"]
    IN  IF /\ (fixed \/ content.t = "str")
           /\ ValidOptStr(x, K.processing)
           /\ ValidOptInt(x, K.stage)
           /\ (medias.t = "null"
                  \/ (medias.t = "arr" /\ \A i \in 1..Len(medias.a) : ValidMedia(medias.a[i])))
        THEN PMsg(KnowledgeBaseMessage(
                 IF fixed THEN [lit |-> "kb_searching"] ELSE [str |-> content.s],
                 OptStrOf(x, K.processing), OptIntOf(x, K.stage),
                 IF medias.t = "arr"
                 THEN Some([i \in 1..Len(medias.a) |-> MediaInfo(medias.a[i])])
                 ELSE None,
                 None))
        ELSE PValueError

\* _parse_sse_message: the loop over json_data['msgs'], which returns at the first
\* entry that is an object with a truthy content.
RECURSIVE FirstMsgsContent(_, _, _)
FirstMsgsContent(items, i, data) ==
    IF i > Len(items) THEN PNone
    ELSE IF items[i].t = "obj" /\ JHas(items[i], K.content)
            /\ JTruthy(JGet(items[i], K.content))
         THEN IF JGet(items[i], K.content).t = "str"
              THEN PMsg(TextMessage(JGet(items[i], K.content).s, data))
              ELSE PValueError
         ELSE FirstMsgsContent(items, i + 1, data)

\* _parse_sse_message, from json_data on.
Classify(x, data) ==
    IF x.t \in {"num", "null", "bool"} THEN POtherError
    ELSE IF x.t # "obj"
         THEN IF \/ JIn(x, K.msgs) \/ JIn(x, K.content) \/ JIn(x, K.Text) \/ JIn(x, K.type)
                 \/ (JIn(x, K.question) /\ JIn(x, K.answer))
              THEN POtherError
              ELSE PMsg(SystemMessage([pystr |-> x], data))
    ELSE IF JHas(x, K.msgs) /\ JGet(x, K.msgs).t = "arr"
         THEN FirstMsgsContent(JGet(x, K.msgs).a, 1, data)
    ELSE IF JHas(x, K.content) /\ JGet(x, K.content).t = "str"
            /\ JGet(x, K.content).s # <<>>
         THEN PMsg(TextMessage(JGet(x, K.content).s, data))
    ELSE IF JHas(x, K.Text) /\ JGet(x, K.Text).t = "str"
         THEN PMsg(TextMessage(JGet(x, K.Text).s, data))
    ELSE IF JHas(x, K.type) /\ JGet(x, K.type).t = "str"
            /\ JGet(x, K.type).s = K.knowledgeBase
         THEN ParseKnowledgeBase(x)
    ELSE IF JHas(x, K.question) /\ JHas(x, K.answer) /\ JTruthy(JGet(x, K.answer))
         THEN IF JGet(x, K.answer).t = "str"
              THEN PMsg(TextMessage(JGet(x, K.answer).s, data))
              ELSE PValueError
    ELSE PMsg(SystemMessage([pystr |-> x], data))

\* _parse_sse_message(line)
ParseSseMessage(line) ==
    LET isData == StartsWith(line, K.DATA_PREFIX)
        data == IF isData THEN SubSeq(line, Len(K.DATA_PREFIX) + 1, Len(line)) ELSE line
    IN  IF ~isData /\ (StartsWith(line, K.EVENT_PREFIX) \/ StartsWith(line, K.ID_PREFIX))
        THEN PNone
        ELSE IF data = <<>> \/ data = K.DONE_MARK \/ Strip(data) = <<>> THEN PNone
        ELSE LET Loaded(j) == IF ~j.ok THEN PValueError ELSE Classify(j.v, data)
             IN  Loaded(JsonLoads(data))

\* _extract_messages_from_response on the object qa, the content of the entry last of
\* msgs: [msgs, failed], the messages it adds, and whether an exception other than
\* JSONDecodeError ended it. The answer, loaded as JSON (inner), gives its Text when
\* it is an object holding one, else the answer as it is. The references,
\* context_refs loaded as JSON (ctx), give one message for the entries of medias that
\* MediaInfo accepts, when there are any, and are not looked at when the answer
\* failed.
ExtractFromQa(qa, last) ==
    LET Part(msgs, failed) == [msgs |-> msgs, failed |-> failed]
        AnswerLoaded(inner, answer) ==
            IF inner.ok /\ inner.v.t = "obj" /\ JHas(inner.v, K.Text)
            THEN IF JGet(inner.v, K.Text).t = "str"
                 THEN Part(<<TextMessage(JGet(inner.v, K.Text).s, [pystr |-> last])>>, FALSE)
                 ELSE Part(<<>>, TRUE)
            ELSE Part(<<TextMessage(answer.s, [pystr |-> last])>>, FALSE)
        AnswerMessages(answer) ==
            IF answer.t = "str" /\ answer.s # <<>>
            THEN AnswerLoaded(JsonLoads(answer.s), answer)
            ELSE Part(<<>>, FALSE)
        ReferencesMessage(medias, refs) ==
            IF medias = <<>> THEN Part(<<>>, FALSE)
            ELSE Part(<<KnowledgeBaseMessage([lit |-> "references"], None, None,
                            Some([i \in 1..Len(medias) |-> MediaInfo(medias[i])]),
                            Some(refs.s))>>, FALSE)
        ReferencesLoaded(ctx, refs) ==
            IF /\ ctx.ok /\ ctx.v.t = "obj"
               /\ JHas(ctx.v, K.medias) /\ JGet(ctx.v, K.medias).t = "arr"
            THEN ReferencesMessage(SelectSeq(JGet(ctx.v, K.medias).a, ValidMedia), refs)
            ELSE Part(<<>>, FALSE)
        ReferencesMessages(refs) ==
            IF ~JTruthy(refs) THEN Part(<<>>, FALSE)
            ELSE IF refs.t # "str" THEN Part(<<>>, TRUE)
            ELSE ReferencesLoaded(JsonLoads(refs.s), refs)
        AnswerThenReferences(a, r) == IF a.failed THEN a ELSE Part(a.msgs \o r.msgs, r.failed)
        Default(key) == IF JHas(qa, key) THEN JGet(qa, key) ELSE [t |-> "str", s |-> <<>>]
    IN  AnswerThenReferences(AnswerMessages(Default(K.answer)),
                             ReferencesMessages(Default(K.context_refs)))

\* _extract_messages_from_response(response_data): the messages of a response that is
\* one JSON document. Only the last entry of msgs is looked at, and only when it is
\* an object of type 3 whose content is an object; the except clause adds one SYSTEM
\* message holding str(response_data).
ExtractMessagesFromResponse(x) ==
    LET sys == SystemMessage([pystr |-> x], [pystr |-> x])
        Ends(r) == IF r.failed THEN Append(r.msgs, sys) ELSE r.msgs
        FromLast(last) ==
            IF /\ last.t = "obj"
               /\ JHas(last, K.type) /\ JGet(last, K.type).t = "num" /\ JGet(last, K.type).n = 3
            THEN IF JHas(last, K.content)
                 THEN IF JGet(last, K.content).t = "obj"
                      THEN Ends(ExtractFromQa(JGet(last, K.content), last))
                      ELSE <<>>
                 ELSE Ends(ExtractFromQa([t |-> "obj", o |-> <<>>], last))
            ELSE <<>>
        FromMsgs(msgs_list) == IF msgs_list = <<>> THEN <<>> ELSE FromLast(msgs_list[Len(msgs_list)])
    IN  IF x.t \in {"num", "null", "bool"} THEN <<sys>>
        ELSE IF x.t # "obj" THEN IF JIn(x, K.msgs) THEN <<sys>> ELSE <<>>
        ELSE IF JHas(x, K.msgs) /\ JGet(x, K.msgs).t = "arr" THEN FromMsgs(JGet(x, K.msgs).a)
        ELSE <<>>

-----------------------------------------------------------------------------
(* _process_sse_stream. Its locals are the fields of a record d; out is the     *)
(* sequence of the messages yielded so far. phase: "streaming" while chunks are  *)
(* read, "aborted" when the reading loop was left by a break or an exception of  *)
(* the line parser, "done" at the generator's normal end, "raised" when an       *)
(* exception left it (raised_kind: its class).                                   *)

FALLBACK_CHUNK_LIMIT == 100

\* The raw-log settings of IMAConfig as the model declares them, and the client's
\* raw_log_dir, which __init__ sets when enable_raw_logging is on and the directory
\* could be made.
DEFAULT_RAW_LOG_MAX_BYTES == 1048576

DefaultRawLogging ==
    [enable_raw_logging |-> FALSE, raw_log_dir |-> FALSE, raw_log_on_success |-> FALSE,
     raw_log_max_bytes |-> DEFAULT_RAW_LOG_MAX_BYTES]

\* The policy without its tests of the stream error and of raw_log_on_success.
ShouldPersistRawAlways(r, stream_error) == r.raw_log_dir /\ r.enable_raw_logging

\* _should_persist_raw(stream_error)
ShouldPersistRaw(r, stream_error) ==
    IF ~r.raw_log_dir \/ ~r.enable_raw_logging THEN FALSE
    ELSE IF stream_error # "" THEN TRUE
    ELSE r.raw_log_on_success

\* len(text.encode("utf-8")) of a text of decoded code points
RECURSIVE Utf8Len(_, _)
Utf8Len(text, i) ==
    IF i > Len(text) THEN 0
    ELSE (IF text[i] < 128 THEN 1 ELSE IF text[i] < 2048 THEN 2
          ELSE IF text[i] < 65536 THEN 3 ELSE 4) + Utf8Len(text, i + 1)

\* _persist_raw_response: the record written, None when nothing is. The payload is
\* given by the number of its bytes that are saved.
PersistRawResponse(r, d) ==
    LET max_bytes == r.raw_log_max_bytes
        response_bytes == Utf8Len(d.full_response, 1)
        truncated == max_bytes > 0 /\ response_bytes > max_bytes
    IN  IF ~ShouldPersistRaw(r, d.stream_error) THEN None
        ELSE Some([message_count |-> d.message_count,
                   parsed_message_count |-> d.parsed_message_count,
                   failed_parse_count |-> d.failed_parse_count,
                   response_bytes |-> response_bytes,
                   saved_bytes |-> IF truncated THEN max_bytes ELSE response_bytes,
                   truncated |-> truncated,
                   stream_error |-> d.stream_error])

DecoderStart ==
    [buffer |-> <<>>, full_response |-> <<>>, message_count |-> 0,
     parsed_message_count |-> 0, failed_parse_count |-> 0,
     has_received_data |-> FALSE, stream_error |-> "", pending |-> <<>>,
     out |-> <<>>, phase |-> "streaming", raised_kind |-> "", fallback |-> "none",
     trace |-> None]

\* One parsed line inside the reading loop, whose try block counts a ValueError and is
\* left by any other exception.
LoopLine(d, line) ==
    LET Parsed(p) ==
            IF p.kind = "msg"
            THEN [d EXCEPT !.parsed_message_count = @ + 1, !.out = Append(@, p.msg)]
            ELSE IF p.kind = "none" THEN d
            ELSE IF p.kind = "value_error" THEN [d EXCEPT !.failed_parse_count = @ + 1]
            ELSE [d EXCEPT !.stream_error = "exception", !.phase = "aborted"]
    IN  Parsed(ParseSseMessage(line))

\* while '\n' in buffer: ...
RECURSIVE DrainLines(_)
DrainLines(d) ==
    LET Line(d1, line) == DrainLines(IF line = <<>> THEN d1 ELSE LoopLine(d1, line))
        At(k) ==
            IF k = 0 \/ d.phase # "streaming" THEN d
            ELSE Line([d EXCEPT !.buffer = SubSeq(d.buffer, k + 1, Len(d.buffer))],
                      Strip(SubSeq(d.buffer, 1, k - 1)))
    IN  At(IndexOf(d.buffer, 10, 1))

\* One turn of async for chunk in response.content. late: more time than the timeout
\* in force has passed since the last data.
FeedChunk(d, chunk, late) ==
    IF late THEN [d EXCEPT !.stream_error = "manual_timeout", !.phase = "aborted"]
    ELSE IF chunk = <<>> THEN d
    ELSE LET Decoded(r) ==
                 DrainLines([d EXCEPT !.has_received_data = TRUE,
                                      !.message_count = @ + 1,
                                      !.pending = r.pending,
                                      !.buffer = @ \o r.text,
                                      !.full_response = @ \o r.text])
         IN  Decoded(Utf8Decode(d.pending, chunk, FALSE))

\* A line of what is left in the buffer at the end: a ValueError is counted, another
\* exception leaves the generator.
TailLine(d, line) ==
    LET Parsed(p) ==
            IF p.kind = "msg"
            THEN [d EXCEPT !.parsed_message_count = @ + 1, !.out = Append(@, p.msg)]
            ELSE IF p.kind = "none" THEN d
            ELSE IF p.kind = "value_error" THEN [d EXCEPT !.failed_parse_count = @ + 1]
            ELSE [d EXCEPT !.phase = "raised", !.raised_kind = "other_error"]
    IN  Parsed(ParseSseMessage(line))

\* A line of the whole response, parsed again by the fallback with nothing caught: no
\* message counts as a failure, an exception leaves the generator.
FallbackLine(d, line) ==
    IF line = K.DONE_MARK THEN d
    ELSE LET Parsed(p) ==
                 IF p.kind = "msg"
                 THEN [d EXCEPT !.parsed_message_count = @ + 1, !.out = Append(@, p.msg)]
                 ELSE IF p.kind = "none" THEN [d EXCEPT !.failed_parse_count = @ + 1]
                 ELSE [d EXCEPT !.phase = "raised", !.raised_kind = p.kind]
         IN  Parsed(ParseSseMessage(line))

\* for line in lines: the stripped, non-empty ones, while the generator runs.
RECURSIVE TailLines(_, _, _)
TailLines(d, lines, i) ==
    LET Line(line) == TailLines(IF line = <<>> THEN d ELSE TailLine(d, line), lines, i + 1)
    IN  IF i > Len(lines) \/ d.phase = "raised" THEN d ELSE Line(Strip(lines[i]))

RECURSIVE FallbackLines(_, _, _)
FallbackLines(d, lines, i) ==
    LET Line(line) ==
            FallbackLines(IF line = <<>> THEN d ELSE FallbackLine(d, line), lines, i + 1)
    IN  IF i > Len(lines) \/ d.phase = "raised" THEN d ELSE Line(Strip(lines[i]))

\* The except clauses and the finally block: the stream error of the way the reading
\* ended (cause: "eof", "aborted", "timeout", "payload_error", "exception"), then the
\* decoder's flush into buffer and full_response, then the raw record.
EndReading(d, cause) ==
    LET r == Utf8Decode(d.pending, <<>>, TRUE)
        err == IF cause = "timeout"
               THEN IF d.has_received_data /\ d.parsed_message_count > 0 THEN ""
                    ELSE "sse_timeout"
               ELSE IF cause = "payload_error" THEN "payload_error"
               ELSE IF cause = "exception" THEN "exception"
               ELSE d.stream_error
        Persisted(e) == [e EXCEPT !.trace = PersistRawResponse(rawLogging, e)]
    IN  Persisted([d EXCEPT !.stream_error = err, !.pending = <<>>,
                            !.buffer = @ \o r.text, !.full_response = @ \o r.text,
                            !.phase = "ended"])

\* The generator without the lines left in the buffer.
ResidualBufferDropped(d) == d

\* if buffer.strip(): the lines left in the buffer.
ResidualBuffer(d) ==
    IF Strip(d.buffer) = <<>> THEN d
    ELSE TailLines(d, SplitLines(Strip(d.buffer), 1), 1)

\* Whether the whole-response fallback runs.
FallbackDue(d) == d.message_count < FALLBACK_CHUNK_LIMIT \/ ~d.has_received_data

\* if message_count < 100 or not has_received_data: the whole response as one JSON
\* document, else line by line once more.
Fallback(d) ==
    IF d.phase = "raised" \/ ~FallbackDue(d) THEN d
    ELSE IF Strip(d.full_response) = <<>> THEN d
    ELSE LET Loaded(j) ==
                 IF j.ok
                 THEN [d EXCEPT !.out = @ \o ExtractMessagesFromResponse(j.v),
                                !.fallback = "document"]
                 ELSE IF d.full_response = <<>> THEN d
                 ELSE FallbackLines([d EXCEPT !.fallback = "lines"],
                                    SplitLines(d.full_response, 1), 1)
         IN  Loaded(JsonLoads(Strip(d.full_response)))

\* _process_sse_stream from the end of the reading loop to the generator's end.
FinishStream(d, cause) ==
    LET Ended(e) == IF e.phase = "raised" THEN e ELSE [e EXCEPT !.phase = "done"]
    IN  Ended(Fallback(ResidualBuffer(EndReading(d, cause))))

\* The whole generator on a sequence of chunks that ends normally.
RECURSIVE FeedAll(_, _, _)
FeedAll(d, chunks, i) ==
    IF i > Len(chunks) \/ d.phase # "streaming" THEN d
    ELSE FeedAll(FeedChunk(d, chunks[i], FALSE), chunks, i + 1)

ProcessSseStream(chunks) ==
    LET d == FeedAll(DecoderStart, chunks, 1)
    IN  FinishStream(d, IF d.phase = "aborted" THEN "aborted" ELSE "eof")

-----------------------------------------------------------------------------
(* The stream decoder on its own: one response body, cut into chunks. *)

\* The lines of the model's response bodies:
\*   Hello      data: {"content":"Hello"}
\*   World      data: {"content":" world"}
\*   Accent     data: {"content":"e-acute"}, the character U+00E9 as the two bytes C3 A9
\*   Done       data: [DONE]
\*   Unknown    data: {"x":1}
\*   Number     data: 5
\*   String     data: "abc"
\*   Garbage    garbage
\*   Event      event: message
\*   Envelope   data: {"msgs":[{"content":"A"},{"content":"B"}]}
\*   Knowledge  data: {"type":"knowledgeBase","processing":"p"}
\*   Document   {"msgs":[{"type":3,"content":{"answer":"T"}}]}
\*   Blanks     data: {"content":" a \n\n\n b"}, the content holding three line feeds
\*   Media      data: {"type":"knowledgeBase","medias":[{"id":"m","type":1,"title":"T"}]}
\*   Both       data: {"content":"C","Text":"T"}, a payload of two of the shapes
\*   Cut        data: {"content":" and the byte C3, a character cut after its first byte
Lines ==
    [Hello |-> <<100, 97, 116, 97, 58, 32, 123, 34, 99, 111, 110, 116, 101, 110, 116, 34, 58, 34, 72, 101, 108, 108, 111, 34, 125>>,
     World |-> <<100, 97, 116, 97, 58, 32, 123, 34, 99, 111, 110, 116, 101, 110, 116, 34, 58, 34, 32, 119, 111, 114, 108, 100, 34, 125>>,
     Accent |-> <<100, 97, 116, 97, 58, 32, 123, 34, 99, 111, 110, 116, 101, 110, 116, 34, 58, 34, 195, 169, 34, 125>>,
     Done |-> <<100, 97, 116, 97, 58, 32, 91, 68, 79, 78, 69, 93>>,
     Unknown |-> <<100, 97, 116, 97, 58, 32, 123, 34, 120, 34, 58, 49, 125>>,
     Number |-> <<100, 97, 116, 97, 58, 32, 53>>,
     String |-> <<100, 97, 116, 97, 58, 32, 34, 97, 98, 99, 34>>,
     Garbage |-> <<103, 97, 114, 98, 97, 103, 101>>,
     Event |-> <<101, 118, 101, 110, 116, 58, 32, 109, 101, 115, 115, 97, 103, 101>>,
     Envelope |-> <<100, 97, 116, 97, 58, 32, 123, 34, 109, 115, 103, 115, 34, 58, 91, 123, 34, 99, 111, 110, 116, 101, 110, 116, 34, 58, 34, 65, 34, 125, 44, 123, 34, 99, 111, 110, 116, 101, 110, 116, 34, 58, 34, 66, 34, 125, 93, 125>>,
     Knowledge |-> <<100, 97, 116, 97, 58, 32, 123, 34, 116, 121, 112, 101, 34, 58, 34, 107, 110, 111, 119, 108, 101, 100, 103, 101, 66, 97, 115, 101, 34, 44, 34, 112, 114, 111, 99, 101, 115, 115, 105, 110, 103, 34, 58, 34, 112, 34, 125>>,
     Document |-> <<123, 34, 109, 115, 103, 115, 34, 58, 91, 123, 34, 116, 121, 112, 101, 34, 58, 51, 44, 34, 99, 111, 110, 116, 101, 110, 116, 34, 58, 123, 34, 97, 110, 115, 119, 101, 114, 34, 58, 34, 84, 34, 125, 125, 93, 125>>,
     Both |-> <<100, 97, 116, 97, 58, 32, 123, 34, 99, 111, 110, 116, 101, 110, 116, 34, 58, 34, 67, 34, 44, 34, 84, 101, 120, 116, 34, 58, 34, 84, 34, 125>>,
     Cut |-> <<100, 97, 116, 97, 58, 32, 123, 34, 99, 111, 110, 116, 101, 110, 116, 34, 58, 34, 195>>,
     Blanks |-> <<100, 97, 116, 97, 58, 32, 123, 34, 99, 111, 110, 116, 101, 110, 116, 34, 58, 34, 32, 97, 32, 92, 110, 92, 110, 92, 110, 32, 98, 34, 125>>,
     Media |-> <<100, 97, 116, 97, 58, 32, 123, 34, 116, 121, 112, 101, 34, 58, 34, 107, 110, 111, 119, 108, 101, 100, 103, 101, 66, 97, 115, 101, 34, 44, 34, 109, 101, 100, 105, 97, 115, 34, 58, 91, 123, 34, 105, 100, 34, 58, 34, 109, 34, 44, 34, 116, 121, 112, 101, 34, 58, 49, 44, 34, 116, 105, 116, 108, 101, 34, 58, 34, 84, 34, 125, 93, 125>>]

\* The lines a response body is made of, and the ones of a long body.
Vocabulary ==
    {Lines.Hello, Lines.World, Lines.Accent, Lines.Unknown, Lines.Number, Lines.String,
     Lines.Garbage, Lines.Envelope, Lines.Knowledge, Lines.Document, Lines.Blanks,
     Lines.Media, Lines.Both, Lines.Cut}

LongVocabulary == {Lines.Hello, Lines.World, Lines.Garbage}

\* The bytes of a sequence of lines, a line feed after each but, when open, the last.
RECURSIVE JoinLines(_, _)
JoinLines(ls, open) ==
    IF ls = <<>> THEN <<>>
    ELSE IF Len(ls) = 1 /\ open THEN ls[1]
    ELSE ls[1] \o <<10>> \o JoinLines(Tail(ls), open)

Bodies(V) == UNION {[1..n -> V] : n \in 0..MaxLines}

\* Response bodies: the lines of the body, the end marker or none, the last line
\* closed by a line feed or left open; the long ones have PadLines event lines in
\* front, which makes them longer than FALLBACK_CHUNK_LIMIT bytes.
Streams ==
    {JoinLines(ls \o done, open) :
        ls \in Bodies(Vocabulary), done \in {<<>>, <<Lines.Done>>}, open \in BOOLEAN}
    \cup
    {JoinLines([i \in 1..PadLines |-> Lines.Event] \o ls \o done, FALSE) :
        ls \in Bodies(LongVocabulary), done \in {<<>>, <<Lines.Done>>}}

\* The raw-log settings a client can have: raw logging off; on, the directory not
\* made; on with its directory, saving on success or not, the byte cap negative,
\* zero, small or the default.
RawLoggings ==
    {DefaultRawLogging, [DefaultRawLogging EXCEPT !.enable_raw_logging = TRUE]}
    \cup
    {[enable_raw_logging |-> TRUE, raw_log_dir |-> TRUE, raw_log_on_success |-> s,
      raw_log_max_bytes |-> m] :
        s \in BOOLEAN, m \in {-1, 0, SmallRawCap, DEFAULT_RAW_LOG_MAX_BYTES}}

\* Chunk sizes the transport delivers the body in; 0: all of it at once.
ChunkSizes == {0, 1, MaxChunk}

\* The next chunk of the body.
NextChunk ==
    Slice(body, fed + 1, IF chunkSize = 0 THEN Len(body) ELSE fed + chunkSize)

\* The decoder after the next chunk, delivered in time; when the line loop is left by
\* an exception the generator runs on to its end.
AfterChunk ==
    LET Fed(d) == IF d.phase = "aborted" THEN FinishStream(d, "aborted") ELSE d
    IN  Fed(FeedChunk(dec, NextChunk, FALSE))

DecFeed ==
    /\ dec.phase = "streaming"
    /\ fed < Len(body)
    /\ \E d \in {AfterChunk} :
          /\ dec' = d
          /\ endCause' = IF d.phase = "streaming" THEN endCause ELSE "exception"
    /\ fed' = fed + Len(NextChunk)
    /\ UNCHANGED <<body, chunkSize, rawLogging>>

\* The body is what arrived before the reading ended. It ends in one of four ways:
\* the transport reports the end of the body;
DecEof ==
    /\ dec.phase = "streaming"
    /\ fed = Len(body)
    /\ dec' = FinishStream(dec, "eof")
    /\ endCause' = "eof"
    /\ UNCHANGED <<body, chunkSize, fed, rawLogging>>

\* a further chunk arrives later than the manual timeout allows, and is not read;
DecLateChunk ==
    /\ dec.phase = "streaming"
    /\ fed = Len(body)
    /\ dec' = FinishStream(FeedChunk(dec, <<0>>, TRUE), "aborted")
    /\ endCause' = "manual_timeout"
    /\ UNCHANGED <<body, chunkSize, fed, rawLogging>>

\* reading raises asyncio.TimeoutError or aiohttp.ClientPayloadError.
DecReadFails ==
    /\ dec.phase = "streaming"
    /\ fed = Len(body)
    /\ \E cause \in {"timeout", "payload_error"} :
          /\ dec' = FinishStream(dec, cause)
          /\ endCause' = cause
    /\ UNCHANGED <<body, chunkSize, fed, rawLogging>>

-----------------------------------------------------------------------------
(* The answer text built from a list of messages. *)

\* The stripped lines of a text, a run of empty ones reduced to one.
RECURSIVE CleanLinesKeepingRuns(_, _, _)
CleanLinesKeepingRuns(lines, i, prev_empty) ==
    IF i > Len(lines) THEN <<>>
    ELSE <<Strip(lines[i])>> \o CleanLinesKeepingRuns(lines, i + 1, FALSE)

RECURSIVE CleanLines(_, _, _)
CleanLines(lines, i, prev_empty) ==
    LET Line(line) ==
            IF line # <<>> THEN <<line>> \o CleanLines(lines, i + 1, FALSE)
            ELSE IF ~prev_empty THEN <<line>> \o CleanLines(lines, i + 1, TRUE)
            ELSE CleanLines(lines, i + 1, TRUE)
    IN  IF i > Len(lines) THEN <<>> ELSE Line(Strip(lines[i]))

\* _clean_response_content
CleanResponseContent(text) ==
    IF text = <<>> THEN text ELSE JoinLines(CleanLines(SplitLines(text, 1), 1, FALSE), TRUE)

\* The text each TEXT message adds: its text, else its content, when not empty.
RECURSIVE ContentParts(_, _)
ContentParts(msgs, i) ==
    IF i > Len(msgs) THEN <<>>
    ELSE (IF msgs[i].type = "text" THEN msgs[i].text.str ELSE <<>>)
             \o ContentParts(msgs, i + 1)

\* _extract_text_content
ExtractTextContent(msgs) ==
    IF msgs = <<>> THEN [lit |-> "no_response"]
    ELSE [str |-> CleanResponseContent(Strip(ContentParts(msgs, 1)))]

\* _extract_knowledge_info: for each knowledge-base message that holds medias, in
\* order, one item for each of its medias, made of the fields MediaInfo keeps.
RECURSIVE ExtractKnowledgeInfo(_, _)
ExtractKnowledgeInfo(msgs, i) ==
    IF i > Len(msgs) THEN <<>>
    ELSE (IF msgs[i].type = "knowledgeBase" /\ msgs[i].medias # None
          THEN Val(msgs[i].medias) ELSE <<>>)
             \o ExtractKnowledgeInfo(msgs, i + 1)

-----------------------------------------------------------------------------
(* ask_question_complete: the exceptions of an attempt. An exception is a record  *)
(* of its class and of str(e), the latter the code points of the text or, for one *)
(* raised inside the stream decoder, a name standing for it.                      *)

\* str(n) for a natural number.
RECURSIVE IntStr(_)
IntStr(n) == IF n < 10 THEN <<48 + n>> ELSE IntStr(n \div 10) \o <<48 + (n % 10)>>

\* str.lower(), which changes the letters A to Z only in the texts of the model.
Lower(s) == [i \in 1..Len(s) |-> IF s[i] \in 65..90 THEN s[i] + 32 ELSE s[i]]

ValueError(text) == [cls |-> "ValueError", text |-> [str |-> text]]

\* asyncio.TimeoutError("Total timeout exceeded")
TotalTimeoutExceeded ==
    [cls  |-> "TimeoutError",
     text |-> [str |-> <<84, 111, 116, 97, 108, 32, 116, 105, 109, 101, 111, 117, 116, 32, 101, 120, 99, 101, 101, 100, 101, 100>>]]

\* ValueError("Authentication failed - unable to obtain valid token")
AuthenticationFailed ==
    ValueError(<<65, 117, 116, 104, 101, 110, 116, 105, 99, 97, 116, 105, 111, 110, 32, 102, 97, 105, 108, 101, 100, 32, 45, 32, 117, 110, 97, 98, 108, 101, 32, 116, 111, 32, 111, 98, 116, 97, 105, 110, 32, 118, 97, 108, 105, 100, 32, 116, 111, 107, 101, 110>>)

\* ValueError(f"init_session HTTP<error> {status}: {response_text[:500]}"), the
\* word for error in Chinese
InitHttpError(status, response_text) ==
    ValueError(<<105, 110, 105, 116, 95, 115, 101, 115, 115, 105, 111, 110, 32, 72, 84, 84, 80, 38169, 35823, 32>>
                   \o IntStr(status) \o <<58, 32>> \o response_text)

\* ValueError(f"Session initialization failed (code: {code}): {msg}")
SessionInitializationFailed(code, msg) ==
    ValueError(<<83, 101, 115, 115, 105, 111, 110, 32, 105, 110, 105, 116, 105, 97, 108, 105, 122, 97, 116, 105, 111, 110, 32, 102, 97, 105, 108, 101, 100, 32, 40, 99, 111, 100, 101, 58, 32>>
                   \o IntStr(code) \o <<41, 58, 32>> \o msg)

\* ValueError("Question cannot be empty")
QuestionEmpty ==
    ValueError(<<81, 117, 101, 115, 116, 105, 111, 110, 32, 99, 97, 110, 110, 111, 116, 32, 98, 101, 32, 101, 109, 112, 116, 121>>)

\* ValueError(f"HTTP {status}: {response_text[:200]}")
HttpError(status, response_text) ==
    ValueError(<<72, 84, 84, 80, 32>> \o IntStr(status) \o <<58, 32>> \o response_text)

\* ValueError(f"API<error> (code: {code}): {msg}")
ApiError(code, msg) ==
    ValueError(<<65, 80, 73, 38169, 35823, 32, 40, 99, 111, 100, 101, 58, 32>>
                   \o IntStr(code) \o <<41, 58, 32>> \o msg)

\* ValueError of _attempt_request for an empty message list (no valid message
\* received, in Chinese)
NoMessages == ValueError(<<26410, 25910, 21040, 26377, 25928, 28040, 24687>>)

\* aiohttp.ClientError and asyncio.TimeoutError raised by a request.
TransportError(cls) == [cls |-> cls, text |-> [lit |-> "transport"]]

\* The exception that left the stream decoder: json.JSONDecodeError or pydantic's
\* ValidationError (both ValueError), else TypeError or AttributeError.
DecoderError(raised_kind) ==
    [cls  |-> IF raised_kind = "value_error" THEN "JSONDecodeError" ELSE "TypeError",
     text |-> [lit |-> raised_kind]]

\* isinstance(e, ValueError), and the classes AsyncRetrying retries on.
IsValueError(e) == e.cls \in {"ValueError", "JSONDecodeError"}

Retryable(e) == IsValueError(e) \/ e.cls \in {"ClientError", "TimeoutError"}

\* login_expired_patterns: "Session initialization failed", four Chinese phrases
\* (login expired, login failed, authentication failed, session expired, please log
\* in again), "authentication failed", "code: 600001" to "code: 600003",
\* "token expired", "unauthorized", "401".
LoginExpiredPatterns ==
    {<<83, 101, 115, 115, 105, 111, 110, 32, 105, 110, 105, 116, 105, 97, 108, 105, 122, 97, 116, 105, 111, 110, 32, 102, 97, 105, 108, 101, 100>>,
     <<30331, 24405, 36807, 26399>>,
     <<30331, 24405, 22833, 36133>>,
     <<97, 117, 116, 104, 101, 110, 116, 105, 99, 97, 116, 105, 111, 110, 32, 102, 97, 105, 108, 101, 100>>,
     <<35748, 35777, 22833, 36133>>,
     <<99, 111, 100, 101, 58, 32, 54, 48, 48, 48, 48, 49>>,
     <<99, 111, 100, 101, 58, 32, 54, 48, 48, 48, 48, 50>>,
     <<99, 111, 100, 101, 58, 32, 54, 48, 48, 48, 48, 51>>,
     <<116, 111, 107, 101, 110, 32, 101, 120, 112, 105, 114, 101, 100>>,
     <<20250, 35805, 24050, 36807, 26399>>,
     <<35831, 37325, 26032, 30331, 24405>>,
     <<117, 110, 97, 117, 116, 104, 111, 114, 105, 122, 101, 100>>,
     <<52, 48, 49>>}

\* _is_login_expired_error(str(e)); the texts of the decoder's and the transport's
\* exceptions hold none of the patterns.
IsLoginExpiredError(text) ==
    /\ "str" \in DOMAIN text
    /\ \E p \in LoginExpiredPatterns : Contains(Lower(text.str), Lower(p))

\* The message ask_question_complete returns for an exception e: SYSTEM, the
\* content f"<request failed>: {e}", raw str(e).
RequestFailed(e) == SystemMessage([request_failed |-> e.text], e.text)

\* The message ask_question yields when the decoder yielded none.
NoResponsePlaceholder == SystemMessage([lit |-> "no_valid_response"], [lit |-> "No SSE messages"])

-----------------------------------------------------------------------------
(* ask_question_complete, called by one task: the retry loop around             *)
(* _attempt_request, which calls init_session and reads ask_question. The task   *)
(* is alone on the token lock, so a token operation runs from its call to its    *)
(* return within the step that calls it.                                         *)

\* IMAConfig.retry_count when it is not configured.
DEFAULT_RETRY_COUNT == 3

\* stop_after_attempt(3) of init_session.
INIT_SESSION_ATTEMPTS == 3

\* wait_exponential(multiplier=1, min=1, max=10) of the retry loop and
\* wait_exponential(multiplier=1, min=2, max=10) of init_session: the bounds of a wait.
RETRY_WAIT_MIN == 1
INIT_WAIT_MIN == 2
WAIT_MAX == 10

\* stop_after_attempt(self.config.retry_count + 1)
AttemptBudgetWithoutFirst(retry_count) == retry_count

AttemptBudget(retry_count) == retry_count + 1

\* reraise=True: when the attempts are used up the retry loop raises the exception of
\* the last attempt, and not a RetryError around it.
RaisedAtStopWrapped(e) == [cls |-> "RetryError", text |-> [lit |-> "retry_error"]]

RaisedAtStop(e) == e

\* timeout and (time.time() - start_time > timeout), at time t.
Late(t) == timeout # None /\ Val(timeout) # 0 /\ t - askStart > Val(timeout)

\* refresh_token called and returned at time t, n requests sent before it: the
\* configurations it can leave, its result, the requests it sent.
RefreshTokenOutcomes(c, t, n) ==
    LET Prepared(p) ==
            IF p.next = "post"
            THEN {[cfg |-> a.cfg, ok |-> a.ok, posts |-> 1] :
                     a \in {ApplyRefreshResponse(p.cfg, r, n + 1, t) : r \in RefreshOutcomes}}
            ELSE {[cfg |-> p.cfg, ok |-> p.next = "return_true", posts |-> 0]}
    IN  Prepared(RefreshPrepare(c, t))

\* ensure_valid_token, likewise.
EnsureOutcomes(c, t, n) ==
    IF EnsureNeedsRefresh(c, t) THEN RefreshTokenOutcomes(c, t, n)
    ELSE {[cfg |-> c, ok |-> TRUE, posts |-> 0]}

\* _attempt_request returns msgs, and ask_question_complete with it.
AttemptReturns(msgs) ==
    /\ apc' = "returned"
    /\ result' = Some(msgs)
    /\ messages' = msgs
    /\ lastError' = None
    /\ UNCHANGED <<cfg, netCalls, initTries>>

\* The retry loop that never stops: a retryable exception is always followed by a wait
\* and another attempt.
AttemptFailsAndRetries(c, n, t, a, e) ==
    \E f \in IF IsValueError(e) /\ IsLoginExpiredError(e.text)
             THEN RefreshTokenOutcomes(c, t, n)
             ELSE {[cfg |-> c, ok |-> TRUE, posts |-> 0]} :
        /\ cfg' = f.cfg
        /\ netCalls' = n + f.posts
        /\ lastError' = Some(e)
        /\ messages' = <<>>
        /\ initTries' = initTries
        /\ IF ~Retryable(e)
           THEN apc' = "returned" /\ result' = Some(<<RequestFailed(e)>>)
           ELSE apc' = "sleep" /\ result' = result

\* Attempt number a ends at time t with the exception e, the configuration being c and
\* n refresh requests sent: the forced refresh for a ValueError that tells an expired
\* login, then the retry loop's decision, then the except clause of
\* ask_question_complete. The log line before_sleep_log writes before a wait is
\* taken to be written: logging changes nothing of the client.
AttemptFails(c, n, t, a, e) ==
    \E f \in IF IsValueError(e) /\ IsLoginExpiredError(e.text)
             THEN RefreshTokenOutcomes(c, t, n)
             ELSE {[cfg |-> c, ok |-> TRUE, posts |-> 0]} :
        /\ cfg' = f.cfg
        /\ netCalls' = n + f.posts
        /\ lastError' = Some(e)
        /\ messages' = <<>>
        /\ initTries' = initTries
        /\ IF ~Retryable(e)
           THEN apc' = "returned" /\ result' = Some(<<RequestFailed(e)>>)
           ELSE IF a >= AttemptBudget(retryCount)
                THEN apc' = "returned" /\ result' = Some(<<RequestFailed(RaisedAtStop(e))>>)
                ELSE apc' = "sleep" /\ result' = result

\* init_session that sends its request whatever ensure_valid_token returned.
EnterInitSessionUnchecked(c, n, t, a, tries) ==
    \E e \in EnsureOutcomes(c, t, n) :
        /\ cfg' = e.cfg
        /\ netCalls' = n + e.posts
        /\ apc' = "init"
        /\ initTries' = tries
        /\ messages' = <<>>
        /\ UNCHANGED <<lastError, result>>

\* init_session entered at time t for the tries-th time within attempt a, up to its
\* request.
EnterInitSession(c, n, t, a, tries) ==
    \E e \in EnsureOutcomes(c, t, n) :
        IF e.ok
        THEN /\ cfg' = e.cfg
             /\ netCalls' = n + e.posts
             /\ apc' = "init"
             /\ initTries' = tries
             /\ messages' = <<>>
             /\ UNCHANGED <<lastError, result>>
        ELSE AttemptFails(e.cfg, n + e.posts, t, a, AuthenticationFailed)

\* _attempt_request without its test of the deadline.
BeginAttemptUnchecked(t, a) == EnterInitSession(cfg, netCalls, t, a, 1)

\* _attempt_request entered at time t as attempt a.
BeginAttempt(t, a) ==
    IF Late(t) THEN AttemptFails(cfg, netCalls, t, a, TotalTimeoutExceeded)
    ELSE EnterInitSession(cfg, netCalls, t, a, 1)

\* The attempt that reads a stored session id before it asks for one.
SessionIdStored(previous, issued) == IF previous # None THEN Val(previous) ELSE issued

\* The session id an attempt works with, init_session having returned issued and the
\* attempt before having worked with previous: session_id = await self.init_session().
SessionIdForAttempt(previous, issued) == issued

\* The finally clause that closes nothing.
ReleaseResponseNever(r) == r

\* finally: if response and not response.closed: response.close(), the response
\* being r.
ReleaseResponse(r) == IF r = "open" THEN "closed" ELSE r

\* ask_question from its first line to its request, the session id being sid.
EnterAskQuestion(sid) ==
    IF Strip(question) = <<>>
    THEN /\ AttemptFails(cfg, netCalls, now, attempts, QuestionEmpty)
         /\ UNCHANGED <<requests, response>>
    ELSE \E e \in EnsureOutcomes(cfg, now, netCalls) :
            IF e.ok
            THEN /\ cfg' = e.cfg
                 /\ netCalls' = netCalls + e.posts
                 /\ apc' = "post"
                 /\ requests' = Append(requests, sid)
                 /\ response' = "none"
                 /\ UNCHANGED <<initTries, messages, lastError, result>>
            ELSE /\ AttemptFails(e.cfg, netCalls + e.posts, now, attempts,
                                 AuthenticationFailed)
                 /\ UNCHANGED <<requests, response>>

\* What the task does not touch: the token lock and the bookkeeping of the token
\* operations of other tasks; and the arguments of its call.
tokenRest == <<lockHolder, lockWaiters, tpc, top, tresult, sawExpired, failedCalls,
               okCalls, reExpired, answered, clientVars>>

askArgs == <<question, timeout, retryCount>>

\* What the servers answer to init_session and to the question when they do not
\* answer as hoped: the classes of the exceptions of a request, the HTTP statuses
\* other than 200, and the codes other than 0 of init_session and of the question.
Answers ==
    [TransportErrors |-> {"ClientError", "TimeoutError"},
     HttpStatuses    |-> {401, 500},
     InitCodes       |-> {1},
     ApiCodes        |-> {1, 600001}]

\* The response bodies of the question: two content lines and the end marker; a line
\* that is no JSON, then a content line; nothing; a line whose payload is a number;
\* a line that is no JSON and nothing else.
AskBodies ==
    {JoinLines(<<Lines.Hello, Lines.World, Lines.Done>>, FALSE),
     JoinLines(<<Lines.Garbage, Lines.Hello>>, FALSE),
     <<>>,
     JoinLines(<<Lines.Number>>, FALSE),
     JoinLines(<<Lines.Garbage>>, FALSE)}

\* ask_question_complete is called: start_time, then the first attempt up to its first
\* request.
AskCall ==
    /\ apc = "ready"
    /\ askStart' = now
    /\ attempts' = 1
    /\ BeginAttempt(now, 1)
    /\ UNCHANGED <<now, tokenRest, decVars, askArgs, sessVars, response>>

\* The wait of the retry loop is over: the next attempt.
AskWake ==
    /\ apc = "sleep"
    /\ \E d \in RETRY_WAIT_MIN..WAIT_MAX :
          /\ now + d <= MaxAskTime
          /\ now' = now + d
    /\ attempts' = attempts + 1
    /\ BeginAttempt(now', attempts + 1)
    /\ UNCHANGED <<askStart, tokenRest, decVars, askArgs, sessVars, response>>

\* init_session's request is answered: a session id, with which ask_question starts;
\* a transport error, which init_session retries itself; a status other than 200; a
\* code other than 0.
AskInitResponse ==
    /\ apc = "init"
    /\ \/ /\ sessionsIssued' = sessionsIssued + 1
          /\ session_id' = Some(SessionIdForAttempt(session_id, sessionsIssued + 1))
          /\ EnterAskQuestion(Val(session_id'))
       \/ /\ \E cls \in Answers.TransportErrors :
                IF initTries < INIT_SESSION_ATTEMPTS
                THEN /\ apc' = "init_sleep"
                     /\ UNCHANGED <<cfg, netCalls, initTries, messages, lastError,
                                    result>>
                ELSE AttemptFails(cfg, netCalls, now, attempts, TransportError(cls))
          /\ UNCHANGED <<sessVars, response>>
       \/ /\ \E status \in Answers.HttpStatuses :
                AttemptFails(cfg, netCalls, now, attempts, InitHttpError(status, <<>>))
          /\ UNCHANGED <<sessVars, response>>
       \/ /\ \E code \in Answers.InitCodes :
                AttemptFails(cfg, netCalls, now, attempts,
                             SessionInitializationFailed(code, <<>>))
          /\ UNCHANGED <<sessVars, response>>
    /\ UNCHANGED <<now, askStart, attempts, tokenRest, decVars, askArgs>>

\* The wait of init_session's retry is over: init_session again.
AskInitWake ==
    /\ apc = "init_sleep"
    /\ \E d \in INIT_WAIT_MIN..WAIT_MAX :
          /\ now + d <= MaxAskTime
          /\ now' = now + d
    /\ EnterInitSession(cfg, netCalls, now', attempts, initTries + 1)
    /\ UNCHANGED <<askStart, attempts, tokenRest, decVars, askArgs, sessVars, response>>

\* The question's request is answered: an event stream, whose decoder starts; a
\* transport error; a status other than 200; a JSON document in place of the stream.
AskPostResponse ==
    /\ apc = "post"
    /\ \/ /\ apc' = "stream"
          /\ body' \in AskBodies
          /\ chunkSize' = AskChunkSize
          /\ fed' = 0
          /\ dec' = DecoderStart
          /\ endCause' = ""
          /\ response' = "open"
          /\ UNCHANGED <<cfg, netCalls, initTries, messages, lastError, result,
                         rawLogging>>
       \/ /\ \E cls \in Answers.TransportErrors :
                AttemptFails(cfg, netCalls, now, attempts, TransportError(cls))
          /\ response' = ReleaseResponse(response)
          /\ UNCHANGED decVars
       \/ /\ \E status \in Answers.HttpStatuses :
                AttemptFails(cfg, netCalls, now, attempts, HttpError(status, <<>>))
          /\ response' = ReleaseResponse("open")
          /\ UNCHANGED decVars
       \/ /\ \E code \in Answers.ApiCodes :
                AttemptFails(cfg, netCalls, now, attempts, ApiError(code, <<>>))
          /\ response' = ReleaseResponse("open")
          /\ UNCHANGED decVars
    /\ UNCHANGED <<now, askStart, attempts, tokenRest, askArgs, sessVars>>

\* The attempt is over: ask_question's finally clause has run, and the response's
\* body and the decoder are gone.
StreamClosed ==
    /\ response' = ReleaseResponse(response)
    /\ body' = <<>>
    /\ chunkSize' = 0
    /\ fed' = 0
    /\ dec' = DecoderStart
    /\ endCause' = ""
    /\ UNCHANGED rawLogging

\* async for msg in gen, the decoder having gone from dec to d: the messages it
\* yielded in this step are appended one by one, and after the first one the loop is
\* left when the deadline has passed. Then what ended the generator: an exception
\* fails the attempt; at its normal end ask_question adds its own message when the
\* decoder yielded none, and _attempt_request returns the list unless it is empty.
Consume(d) ==
    LET new == SubSeq(d.out, Len(dec.out) + 1, Len(d.out))
        all == messages \o new
                   \o (IF d.out = <<>> THEN <<NoResponsePlaceholder>> ELSE <<>>)
    IN  IF new # <<>> /\ Late(now)
        THEN AttemptReturns(Append(messages, new[1])) /\ StreamClosed
        ELSE IF d.phase = "streaming"
             THEN /\ messages' = messages \o new
                  /\ dec' = d
                  /\ fed' = fed + Len(NextChunk)
                  /\ UNCHANGED <<cfg, netCalls, apc, initTries, lastError, result,
                                 body, chunkSize, endCause, response,
                                 rawLogging>>
        ELSE IF d.phase = "raised"
             THEN /\ AttemptFails(cfg, netCalls, now, attempts, DecoderError(d.raised_kind))
                  /\ StreamClosed
        ELSE IF all = <<>>
             THEN AttemptFails(cfg, netCalls, now, attempts, NoMessages) /\ StreamClosed
             ELSE AttemptReturns(all) /\ StreamClosed

\* A chunk of the stream arrives.
AskChunk ==
    /\ apc = "stream"
    /\ dec.phase = "streaming"
    /\ fed < Len(body)
    /\ \E d \in {AfterChunk} : Consume(d)
    /\ UNCHANGED <<now, askStart, attempts, tokenRest, askArgs, sessVars>>

\* The reading of the stream ends: at the end of the body, by a chunk that comes too
\* late, by an exception of the transport.
AskStreamEnds ==
    /\ apc = "stream"
    /\ dec.phase = "streaming"
    /\ fed = Len(body)
    /\ \/ \E d \in {FinishStream(dec, "eof")} : Consume(d)
       \/ \E d \in {FinishStream(FeedChunk(dec, <<0>>, TRUE), "aborted")} :
             Consume(d)
       \/ \E cause \in {"timeout", "payload_error"} :
             \E d \in {FinishStream(dec, cause)} : Consume(d)
    /\ UNCHANGED <<now, askStart, attempts, tokenRest, askArgs, sessVars>>

\* Time passes while the task waits for a response or for the next chunk.
AskTick ==
    /\ apc \in {"init", "post", "stream"}
    /\ now < MaxAskTime
    /\ now' = now + 1
    /\ UNCHANGED <<cfg, netCalls, tokenRest, decVars, askVars>>

-----------------------------------------------------------------------------
(* The specifications. Each one runs one part of the client and holds the others *)
(* at rest.                                                                      *)

\* No decoder run.
DecoderAtRest ==
    /\ body = <<>>
    /\ chunkSize = 0
    /\ fed = 0
    /\ dec = DecoderStart
    /\ endCause = ""
    /\ rawLogging = DefaultRawLogging

\* No ask_question_complete call.
AskAtRest ==
    /\ apc = "ready"
    /\ question = <<>>
    /\ timeout = None
    /\ retryCount = DEFAULT_RETRY_COUNT
    /\ askStart = 0
    /\ attempts = 0
    /\ initTries = 0
    /\ messages = <<>>
    /\ lastError = None
    /\ result = None
    /\ sessionsIssued = 0
    /\ session_id = None
    /\ requests = <<>>
    /\ response = "none"

-----------------------------------------------------------------------------
(* The headers of a request, built from the cookie text and the current token.  *)

\* re.sub(r'IMA-TOKEN=[^;]+', repl, text) from position i on: every occurrence of
\* field followed by one character or more other than ';' is replaced, the scan
\* going on behind it. The tokens of the model hold no backslash, which the
\* replacement template would interpret.
RECURSIVE ReSubToken(_, _, _, _)
ReSubToken(text, field, repl, i) ==
    LET n == Len(field)
        hit == /\ i + n <= Len(text)
               /\ SubSeq(text, i, i + n - 1) = field
               /\ text[i + n] # 59
        stops == {j \in (i + n)..Len(text) : text[j] = 59}
        next == IF stops = {} THEN Len(text) + 1 ELSE MinOf(stops)
    IN  IF i > Len(text) THEN <<>>
        ELSE IF hit THEN repl \o ReSubToken(text, field, repl, next)
        ELSE <<text[i]>> \o ReSubToken(text, field, repl, i + 1)

\* _build_headers(for_init_session), of the headers those that are not fixed texts:
\* the cookie with the current token put in, the two content headers, and the
\* bearer header when there is a token. An empty token counts as none.
BuildHeaders(x_ima_cookie, current_token, for_init_session) ==
    LET field == <<73, 77, 65, 45, 84, 79, 75, 69, 78, 61>>
        bearer == <<66, 101, 97, 114, 101, 114, 32>>
        token == IF current_token = None THEN <<>> ELSE Val(current_token)
        Has(s) == \E i \in 1..(Len(s) - Len(field) + 1) :
                      SubSeq(s, i, i + Len(field) - 1) = field
        RStrip(s) ==
            LET kept == {i \in 1..Len(s) : s[i] \notin {59, 32}}
            IN  IF kept = {} THEN <<>> ELSE SubSeq(s, 1, MaxOf(kept))
    IN  [x_ima_cookie |->
             IF token = <<>> THEN x_ima_cookie
             ELSE IF Has(x_ima_cookie)
                  THEN ReSubToken(x_ima_cookie, field, field \o token, 1)
                  ELSE RStrip(x_ima_cookie) \o <<59, 32>> \o field \o token,
         accept |-> IF for_init_session THEN "application/json" ELSE "*/*",
         content_type |-> IF for_init_session THEN "application/json"
                          ELSE "text/event-stream",
         authorization |-> IF token = <<>> THEN None ELSE Some(bearer \o token)]

\* The cookie texts and tokens headers are built from: up to two fields out of
\* IMA-UID=u1, IMA-TOKEN=t0, IMA-TOKEN= and IMA-REFRESH-TOKEN=r0, joined by "; ", with
\* nothing, ";" or "; " behind them; no token, an empty one, or t1.
HeaderInputs ==
    LET Fields == {<<73, 77, 65, 45, 85, 73, 68, 61, 117, 49>>,
                   <<73, 77, 65, 45, 84, 79, 75, 69, 78, 61, 116, 48>>,
                   <<73, 77, 65, 45, 84, 79, 75, 69, 78, 61>>,
                   <<73, 77, 65, 45, 82, 69, 70, 82, 69, 83, 72, 45, 84, 79, 75, 69, 78, 61, 114, 48>>}
        Joined == {<<>>} \cup Fields \cup {f \o <<59, 32>> \o g : f, g \in Fields}
    IN  {[x_ima_cookie |-> j \o e, current_token |-> t, for_init_session |-> b] :
            j \in Joined, e \in {<<>>, <<59>>, <<59, 32>>},
            t \in {None, Some(<<>>), Some(<<116, 49>>)}, b \in BOOLEAN}

\* A request is prepared: _build_headers is called.
BuildHeadersCall ==
    /\ headerArgs # None
    /\ headers = None
    /\ headers' = Some(BuildHeaders(headerArgs.x_ima_cookie, headerArgs.current_token,
                                    headerArgs.for_init_session))
    /\ UNCHANGED <<headerArgs, http>>

-----------------------------------------------------------------------------
(* The HTTP session of the client. ClientSession objects are numbered in the     *)
(* order they are made; closed holds those whose closed flag is set, closing     *)
(* those whose close() is awaited, held the session each task got last.          *)

\* self.session = None, as __init__ leaves it.
HttpAtRest ==
    [session |-> None, made |-> 0, closed |-> {}, closing |-> {},
     held |-> [c \in Callers |-> None]]

\* _get_session that makes a ClientSession at every call.
GetSessionAlwaysNew(c) ==
    /\ http.made < MaxSessions
    /\ http' = [http EXCEPT !.made = @ + 1, !.session = Some(http.made + 1),
                            !.held[c] = Some(http.made + 1)]
    /\ UNCHANGED <<headerArgs, headers>>

\* Task c calls _get_session, which has no suspension: a ClientSession is made when
\* self.session is None or closed, and self.session is returned.
GetSession(c) ==
    /\ IF http.session = None \/ Val(http.session) \in http.closed
       THEN /\ http.made < MaxSessions
            /\ http' = [http EXCEPT !.made = @ + 1, !.session = Some(http.made + 1),
                                    !.held[c] = Some(http.made + 1)]
       ELSE http' = [http EXCEPT !.held[c] = http.session]
    /\ UNCHANGED <<headerArgs, headers>>

\* close(): session.close() is awaited when self.session is set and not closed. The
\* session's closed flag is set when the call begins or when it ends, the library
\* deciding which; self.session is left as it is.
Close ==
    /\ \/ /\ http.session # None
          /\ Val(http.session) \notin http.closed
          /\ \E early \in BOOLEAN :
                http' = [http EXCEPT !.closing = @ \cup {Val(http.session)},
                                     !.closed = IF early THEN @ \cup {Val(http.session)}
                                                ELSE @]
       \/ \E s \in http.closing :
             http' = [http EXCEPT !.closing = @ \ {s}, !.closed = @ \cup {s}]
    /\ UNCHANGED <<headerArgs, headers>>

\* No token operation.
TokenIdle ==
    /\ lockHolder = None
    /\ lockWaiters = <<>>
    /\ tpc = [c \in Callers |-> "idle"]
    /\ top = [c \in Callers |-> "none"]
    /\ tresult = [c \in Callers |-> None]
    /\ sawExpired = [c \in Callers |-> FALSE]
    /\ netCalls = 0
    /\ failedCalls = 0
    /\ okCalls = 0
    /\ reExpired = FALSE
    /\ answered = None

\* No token operation, a token that has not expired.
TokenAtRest ==
    /\ now = 0
    /\ cfg = [user_id |-> Some("u0"), refresh_token |-> Some("rt0"),
              x_ima_cookie |-> [IMA_UID |-> None, IMA_REFRESH_TOKEN |-> None,
                                IMA_TOKEN |-> None],
              cookies |-> None, current_token |-> Some(0),
              token_valid_time |-> Some(DEFAULT_VALID_TIME),
              token_updated_at |-> Some(0)]
    /\ TokenIdle

TokenInit ==
    /\ now = 0
    /\ cfg \in InitialConfigs
    /\ TokenIdle
    /\ DecoderAtRest
    /\ AskAtRest
    /\ headerArgs = None
    /\ headers = None
    /\ http = HttpAtRest

TokenNext ==
    \/ TokenTick
    \/ \E c \in Callers : CallEnsureValidToken(c)
    \/ \E c \in Callers : CallRefreshToken(c)
    \/ \E c \in Callers : LockGranted(c)
    \/ \E c \in Callers : RefreshResponse(c)

SpecToken == TokenInit /\ [][TokenNext]_vars

DecodeInit ==
    /\ TokenAtRest
    /\ AskAtRest
    /\ body \in Streams
    /\ chunkSize \in ChunkSizes
    /\ fed = 0
    /\ dec = DecoderStart
    /\ endCause = ""
    /\ rawLogging \in IF Len(body) <= MaxTraceBody THEN RawLoggings
                       ELSE {DefaultRawLogging}
    /\ headerArgs = None
    /\ headers = None
    /\ http = HttpAtRest

DecodeNext ==
    \/ DecFeed /\ UNCHANGED <<tokenVars, askVars>>
    \/ DecLateChunk /\ UNCHANGED <<tokenVars, askVars>>
    \/ DecEof /\ UNCHANGED <<tokenVars, askVars>>
    \/ DecReadFails /\ UNCHANGED <<tokenVars, askVars>>

SpecDecode == DecodeInit /\ [][DecodeNext]_vars

\* The client on its own: the headers of one request, and its HTTP session.
ClientInit ==
    /\ TokenAtRest
    /\ DecoderAtRest
    /\ AskAtRest
    /\ headerArgs \in HeaderInputs
    /\ headers = None
    /\ http = HttpAtRest

ClientNext ==
    /\ \/ BuildHeadersCall
       \/ \E c \in Callers : GetSession(c)
       \/ Close
    /\ UNCHANGED <<now, cfg, lockHolder, lockWaiters, tpc, top, tresult, sawExpired,
                   netCalls, failedCalls, okCalls, reExpired, answered, decVars, askVars>>

SpecClient == ClientInit /\ [][ClientNext]_vars

\* The credential states of the client when the question is asked: a token that is
\* valid for a while and the credentials to refresh it, or a token of no known age
\* and no refresh token to be found.
AskConfigs ==
    {c \in InitialConfigs :
        /\ c.current_token # None
        /\ c.user_id # None
        /\ \/ /\ c.refresh_token # None
              /\ c.token_valid_time = Some(REFRESH_MARGIN + MaxTtlSlack)
           \/ /\ c.refresh_token = None
              /\ c.x_ima_cookie.IMA_TOKEN = None
              /\ c.token_valid_time = None}

\* The calls of ask_question_complete: a blank question and one with text; no
\* total timeout and one of a second; no retry and config.retry_count's default.
Calls ==
    [Questions   |-> {<<32>>, <<104, 105>>},
     Timeouts    |-> {None, Some(1)},
     RetryCounts |-> {0, DEFAULT_RETRY_COUNT}]

AskInit ==
    /\ now = 0
    /\ cfg \in AskConfigs
    /\ TokenIdle
    /\ DecoderAtRest
    /\ headerArgs = None
    /\ headers = None
    /\ http = HttpAtRest
    /\ apc = "ready"
    /\ question \in Calls.Questions
    /\ timeout \in Calls.Timeouts
    /\ retryCount \in Calls.RetryCounts
    /\ askStart = 0
    /\ attempts = 0
    /\ initTries = 0
    /\ messages = <<>>
    /\ lastError = None
    /\ result = None
    /\ sessionsIssued = 0
    /\ session_id = None
    /\ requests = <<>>
    /\ response = "none"

AskNext ==
    \/ AskCall
    \/ AskInitResponse
    \/ AskInitWake
    \/ AskPostResponse
    \/ AskChunk
    \/ AskStreamEnds
    \/ AskWake
    \/ AskTick

Spec == AskInit /\ [][AskNext]_vars

\* A wait that cannot end before the last second of the model's clock.
ClockStopsWait ==
    \/ apc = "sleep" /\ now + RETRY_WAIT_MIN > MaxAskTime
    \/ apc = "init_sleep" /\ now + INIT_WAIT_MIN > MaxAskTime

\* The same with what the scheduler and the servers owe the task. The call is taken
\* up. Every request is answered and every stream ends: the task is again and again
\* found not waiting for a response, a chunk or the end of a stream. Every wait ends
\* unless the clock stops it: the task is again and again found not waiting for a
\* retry. The two conditions are the weak fairness of the steps that end the waiting,
\* written with the states in which those steps are enabled. The clock owes nothing.
SpecLive ==
    /\ Spec
    /\ WF_vars(AskCall)
    /\ []<>(apc \notin {"init", "post", "stream"})
    /\ []<>(apc \notin {"sleep", "init_sleep"} \/ ClockStopsWait)

-----------------------------------------------------------------------------
(* Claims about ask_question_complete, checked under Spec. *)

\* ask_question_complete has returned because the attempts were used up, the last
\* one, like all before it, ended by a retryable exception.
ReturnedAfterRetryableFailure ==
    apc = "returned" /\ lastError # None /\ Retryable(Val(lastError))

\* C1: when every attempt failed with a retryable error and the attempts are used up,
\* ask_question_complete returns (it raises nothing) a list of exactly one message, of
\* type SYSTEM, whose content and raw text carry the text of the last attempt's
\* exception.
C1_OneSystemMessageForLastError ==
    ReturnedAfterRetryableFailure =>
        /\ result # None
        /\ Len(Val(result)) = 1
        /\ Val(result)[1].type = "system"
        /\ Val(result)[1].content = [request_failed |-> Val(lastError).text]
        /\ Val(result)[1].raw = Some(Val(lastError).text)

\* The default four attempts all failed, the last by a transport error, and the one
\* message returned tells it.
C1_Witness ==
    /\ ReturnedAfterRetryableFailure
    /\ retryCount = DEFAULT_RETRY_COUNT
    /\ attempts = DEFAULT_RETRY_COUNT + 1
    /\ Val(lastError) = TransportError("ClientError")
    /\ result = Some(<<RequestFailed(TransportError("ClientError"))>>)

\* C2: no more than retry_count + 1 attempts are ever started, and when every attempt
\* failed with a retryable error ask_question_complete returns after exactly
\* retry_count + 1 of them (4 for the default retry_count of 3).
C2_ExactlyBudgetAttempts ==
    /\ attempts <= retryCount + 1
    /\ ReturnedAfterRetryableFailure => attempts = retryCount + 1

\* With the default retry_count the call returned after four failed attempts, the
\* last one refused at its start because the deadline had passed.
C2_Witness ==
    /\ ReturnedAfterRetryableFailure
    /\ retryCount = DEFAULT_RETRY_COUNT
    /\ attempts = 4
    /\ Val(lastError) = TotalTimeoutExceeded

\* C3: once the deadline has passed while an attempt is streaming and holds at least
\* one message, no step starts another attempt or fails this one: the attempt goes on
\* reading or the call returns successfully a list that begins with the messages
\* held.
C3_DeadlineKeepsPartialResult ==
    [][(apc = "stream" /\ messages # <<>> /\ Late(now)) =>
          /\ attempts' = attempts
          /\ apc' \in {"stream", "returned"}
          /\ apc' = "returned" =>
                 /\ lastError' = None
                 /\ Len(Val(result')) >= Len(messages)
                 /\ SubSeq(Val(result'), 1, Len(messages)) = messages]_vars

\* C14, as stated: a question that is empty or blank is refused at once by an
\* exception raised to the caller: no session-init or question request is sent, no
\* token is refreshed, no attempt is used up and no message list is returned.
C14_BlankQuestionRaisesAtOnce ==
    Strip(question) = <<>>
        => /\ apc \in {"ready", "raised"}
           /\ netCalls = 0
           /\ attempts <= 1
           /\ result = None

\* C15, as stated: when an attempt fails with an error whose text tells an expired
\* login and another attempt is to follow, a refresh request is sent before it, also
\* when the stored token has not expired by the client's own clock.
C15_ForcedRefreshSendsRequest ==
    [][(/\ apc \in {"init", "post", "stream"}
        /\ apc' = "sleep"
        /\ IsValueError(Val(lastError'))
        /\ IsLoginExpiredError(Val(lastError').text)
        /\ ~IsTokenExpired(cfg, now))
           => netCalls' = netCalls + 1]_vars

\* C16: every attempt obtains a new session by its own session-init call, and a
\* session id is used for at most one question request. The ids being numbered as the
\* server hands them out: no id occurs twice among the requests sent, no attempt sends
\* more than one request, and the request of the running attempt carries the id
\* handed out last, which init_session returned to this attempt.
C16_NewSessionForEveryAttempt ==
    /\ \A i, j \in 1..Len(requests) : requests[i] = requests[j] => i = j
    /\ Len(requests) <= attempts
    /\ apc \in {"post", "stream"}
          => /\ requests # <<>>
             /\ requests[Len(requests)] = sessionsIssued
             /\ session_id = Some(sessionsIssued)

\* A second attempt is reading its stream, the first having sent its request too.
C16_Witness ==
    /\ apc = "stream"
    /\ attempts = 2
    /\ requests = <<1, 2>>

\* C17: on every way an attempt can end, the response of its question request has
\* been released when the attempt is over: the response is open only while the attempt
\* reads its stream, and once the call has returned or waits for the next attempt, or
\* the next attempt works on its own requests, no response is open.
C17_ResponseReleasedAtAttemptEnd ==
    response = "open" => apc = "stream"

\* The call has returned because the deadline had passed when a message arrived, the
\* generator was closed by the caller, and the response it read is closed.
C17_Witness ==
    /\ apc = "returned"
    /\ lastError = None
    /\ Late(now)
    /\ response = "closed"

\* The ways the reading of the stream can end once the whole body was read, as decoder
\* states.
StreamEnds ==
    {FinishStream(dec, "eof"), FinishStream(FeedChunk(dec, <<0>>, TRUE), "aborted"),
     FinishStream(dec, "timeout"), FinishStream(dec, "payload_error")}

\* C18: an attempt whose stream ends having produced no message is a failure that is
\* retried: when the decoder of a stream read to its end has yielded nothing however
\* the reading ends, and attempts remain, the step that ends the attempt leads to the
\* wait before the next attempt and not to the return of the call.
C18_ZeroMessagesIsRetried ==
    [][(/\ apc = "stream"
        /\ fed = Len(body)
        /\ \A d \in StreamEnds : d.phase = "done" /\ d.out = <<>>
        /\ apc' # "stream"
        /\ attempts < AttemptBudget(retryCount))
           => apc' = "sleep"]_vars

\* C19: the deadline of the call cuts an attempt that is still reading its stream,
\* also when no message arrives: no step in which the deadline passes leaves the
\* attempt reading its stream, whether a message has arrived in it or not.
C19_DeadlineCutsSilentStream ==
    [][(apc = "stream" /\ ~Late(now) /\ Late(now')) => apc' # "stream"]_vars

\* The decoder states the next step of the reading can lead to: after the next chunk,
\* or after one of the ends of a body read whole.
DecoderSteps == IF fed < Len(body) THEN {AfterChunk} ELSE StreamEnds

\* C20: the list the call returns on success holds the decoder's messages in the
\* decoder's order with nothing put in and nothing left out: when the step that ends
\* the reading returns a list, the list is what the decoder has yielded, or, the
\* deadline having passed, a beginning of it.
C20_ReturnedListIsDecoderOutput ==
    [][(apc = "stream" /\ apc' = "returned" /\ lastError' = None)
          => \E d \in DecoderSteps :
                /\ Len(Val(result')) <= Len(d.out)
                /\ Val(result') = SubSeq(d.out, 1, Len(Val(result')))
                /\ ~Late(now) => Val(result') = d.out]_vars

\* An attempt ends in this step with the exception of a token check that failed.
TokenCheckFails ==
    /\ apc \in {"ready", "sleep", "init", "init_sleep"}
    /\ apc' \in {"sleep", "returned"}
    /\ lastError' = Some(AuthenticationFailed)

\* C21, as stated: within an attempt the token check comes first, then the session
\* init, then the question's request, and an attempt whose token check fails has sent
\* neither request: the check that fails is the one with which the attempt begins.
C21_FailedTokenCheckSendsNothing ==
    [][TokenCheckFails => apc \in {"ready", "sleep"}]_vars

\* C21, amended: a session-init request is sent only by a step in which
\* ensure_valid_token returned true, the question's request only by the step that
\* takes the session id of this attempt's init and in which ensure_valid_token
\* returned true again, and the step in which a token check fails sends no request
\* and ends the attempt; the requests sent earlier in the attempt stay sent.
C21_RequestsFollowTheirTokenCheck ==
    [][/\ (apc # "init" /\ apc' = "init")
            => \E e \in EnsureOutcomes(cfg, now', netCalls) :
                  e.ok /\ cfg' = e.cfg /\ netCalls' = netCalls + e.posts
       /\ requests' # requests
            => /\ apc = "init" /\ apc' = "post" /\ attempts' = attempts
               /\ sessionsIssued' = sessionsIssued + 1
               /\ requests' = Append(requests, sessionsIssued')
               /\ \E e \in EnsureOutcomes(cfg, now, netCalls) :
                     e.ok /\ cfg' = e.cfg /\ netCalls' = netCalls + e.posts
       /\ TokenCheckFails
            => /\ requests' = requests
               /\ \E e \in EnsureOutcomes(cfg, now', netCalls) : ~e.ok]_vars

\* The token ran out while the session init was under way, the second check of the
\* attempt refreshed it, and the question's request was sent.
C21_Witness ==
    /\ apc = "post"
    /\ attempts = 1
    /\ netCalls = 1
    /\ now > MaxTtlSlack
    /\ requests = <<1>>

\* The clock stops a wait before a retry that is due.
WaitCutByClock ==
    /\ ClockStopsWait
    /\ apc = "sleep" => attempts <= retryCount
    /\ apc = "init_sleep" => initTries < INIT_SESSION_ATTEMPTS

\* ask_question_complete has returned a list that is not empty: the messages of an
\* attempt, or the one SYSTEM message that tells the exception of the last attempt.
Terminal ==
    /\ apc = "returned"
    /\ result # None
    /\ IF lastError = None THEN Val(result) # <<>>
       ELSE Val(result) = <<RequestFailed(Val(lastError))>>

\* C22: when every request is answered and every stream ends, a call of
\* ask_question_complete comes to return, with the messages of an attempt or with one
\* SYSTEM message; it does not retry for ever. (Or the run is cut by the bound of the
\* clock while the call waits for a retry that is due.)
C22_EveryCallReturns ==
    (apc = "ready") ~> (Terminal \/ WaitCutByClock)

\* The call returned the one SYSTEM message after an attempt that failed inside
\* init_session, whose own three tries were used up before.
C22_Witness ==
    /\ Terminal
    /\ lastError # None
    /\ initTries = INIT_SESSION_ATTEMPTS
    /\ attempts = retryCount + 1

\* The client holds nothing to get a token with: the age of its token is not known,
\* and it has no refresh token, neither configured nor in its cookies. Every token
\* check then fails without a request, and no refresh changes that.
NoWayToAToken ==
    /\ cfg.token_valid_time = None
    /\ cfg.refresh_token = None
    /\ cfg.x_ima_cookie.IMA_TOKEN = None

\* C23, as stated: an auth failure is followed by the forced refresh and by at most
\* one further attempt. For a client whose every token check fails, where the first
\* attempt ends in an auth failure: no third attempt is ever started.
C23_OneRetryAfterAuthFailure ==
    NoWayToAToken => attempts <= 2

\* C37, as stated: a stream whose decoder yields nothing makes ask_question yield
\* its one SYSTEM placeholder, so that the attempt has a list to return: when the
\* decoder of a stream read to its end has yielded nothing however the reading ends,
\* the step that ends the attempt returns the list of the placeholder alone.
C37_PlaceholderForSilentStream ==
    [][(/\ apc = "stream"
        /\ fed = Len(body)
        /\ \A d \in StreamEnds : d.out = <<>>
        /\ apc' # "stream")
           => /\ apc' = "returned"
              /\ lastError' = None
              /\ result' = Some(<<NoResponsePlaceholder>>)]_vars

\* C38: once the deadline has passed, an attempt that starts sends nothing. In every
\* step that starts an attempt after the deadline, no refresh request, no session
\* request and no question is sent and the credentials stay as they are; the
\* attempt ends in that step with the timeout of the deadline, followed by a wait
\* or, the attempts being used up, by the return of a single SYSTEM message that
\* tells this timeout.
C38_NoRequestAfterDeadline ==
    [][(attempts' = attempts + 1 /\ Late(now'))
          => /\ netCalls' = netCalls
             /\ cfg' = cfg
             /\ sessionsIssued' = sessionsIssued
             /\ requests' = requests
             /\ apc' \in {"sleep", "returned"}
             /\ lastError' = Some(TotalTimeoutExceeded)
             /\ apc' = "returned"
                   => result' = Some(<<RequestFailed(TotalTimeoutExceeded)>>)]_vars

\* The call has ended after two attempts that started past the deadline, with the
\* message of the timeout.
C38_Witness ==
    /\ apc = "returned"
    /\ attempts = 4
    /\ now = 3
    /\ timeout = Some(1)
    /\ requests = <<>>
    /\ lastError = Some(TotalTimeoutExceeded)
    /\ result = Some(<<RequestFailed(TotalTimeoutExceeded)>>)

-----------------------------------------------------------------------------
(* Claims about the credential store, checked under SpecToken. *)

AllEnsureDone ==
    \A c \in Callers : tpc[c] = "done" /\ top[c] = "ensure" /\ sawExpired[c]

C5_AtMostOneRefreshInFlight ==
    /\ Cardinality({c \in Callers : tpc[c] = "net"}) <= 1
    /\ \A c \in Callers : tpc[c] = "idle" => ENABLED CallEnsureValidToken(c)

\* A task made its expiry check and queued while another task's request was in flight.
C5_Witness ==
    \E a, b \in Callers :
        /\ a # b
        /\ lockHolder = Some(a) /\ tpc[a] = "net"
        /\ tpc[b] = "wait" /\ top[b] = "ensure" /\ sawExpired[b]

\* C6: a call of ensure_valid_token made while the token is not expired returns true in
\* that same step, sends no refresh request, takes no lock and leaves the credential
\* state as it was.
C6_ValidTokenNoNetwork ==
    [][\A c \in Callers :
          (tpc[c] = "idle" /\ tpc'[c] # "idle" /\ top'[c] = "ensure"
              /\ ~IsTokenExpired(cfg, now))
          => (/\ tpc'[c] = "done"
              /\ tresult'[c] = Some(TRUE)
              /\ netCalls' = netCalls
              /\ cfg' = cfg
              /\ lockHolder' = lockHolder
              /\ lockWaiters' = lockWaiters)]_vars

C6_Witness ==
    \E c \in Callers :
        /\ tpc[c] = "done" /\ top[c] = "ensure" /\ ~sawExpired[c]
        /\ tresult[c] = Some(TRUE) /\ netCalls = 0

HasIssue(c) == c.token_updated_at # None /\ c.token_valid_time # None
Threshold(c) == (Val(c.token_updated_at) + Val(c.token_valid_time)) - REFRESH_MARGIN

\* C7, as stated: for every issue time and time-to-live the client holds, the token is
\* reported valid at every time before issued_at + ttl - 300 and expired at that
\* instant and at every later time.
C7_ExpiredFromThreshold ==
    HasIssue(cfg) => \A t \in Times : IsTokenExpired(cfg, t) <=> (t >= Threshold(cfg))

\* C7, amended: with a non-zero time-to-live the token is reported valid at every time
\* up to and including issued_at + ttl - 300 and expired at every later time; with a
\* time-to-live of 0 it is reported expired at every time.
C7_ExpiredAfterThreshold ==
    HasIssue(cfg) =>
        \A t \in Times :
            IsTokenExpired(cfg, t) <=> (Val(cfg.token_valid_time) = 0 \/ t > Threshold(cfg))

\* The clock stands at issued_at + ttl - 300 and a caller was told the token is valid.
C7_Witness ==
    /\ HasIssue(cfg) /\ Val(cfg.token_valid_time) # 0
    /\ now = Threshold(cfg)
    /\ ~IsTokenExpired(cfg, now)
    /\ \E c \in Callers : tpc[c] = "done" /\ top[c] = "ensure" /\ ~sawExpired[c]

\* Task c's refresh request is answered in this step, by an answer of the given kinds.
Answered(c, kinds) ==
    /\ tpc[c] = "net"
    /\ tpc'[c] # "net"
    /\ answered' # None
    /\ Val(answered').kind \in kinds

\* C25, as stated: a transport failure of the refresh request is retried, the request
\* being sent again until it succeeds or three tries were made: the call of
\* refresh_token whose one request so far ended in a transport failure does not
\* return.
C25_TransportFailureIsRetried ==
    [][\A c \in Callers : Answered(c, {"transport_error"}) => tpc'[c] # "done"]_vars

\* The answers that reject the refresh: a reply with a code other than 0, or without
\* a token.
Rejected(r) == r.kind = "reply" /\ (r.code # 0 \/ ~r.token)

\* C26: a refresh that the endpoint rejects is not retried: the call whose request is
\* answered by a rejection returns false in that step, no further request is sent for
\* it, and the credentials stay as they were.
C26_RejectionIsNotRetried ==
    [][\A c \in Callers :
          (Answered(c, {"reply"}) /\ Rejected(Val(answered')))
              => /\ tpc'[c] = "done"
                 /\ tresult'[c] = Some(FALSE)
                 /\ netCalls' = netCalls
                 /\ cfg' = cfg]_vars

\* A call of refresh_token sent the one request there was, the endpoint answered with
\* code 1, and the call has returned false.
C26_Witness ==
    /\ netCalls = 1
    /\ answered # None /\ Rejected(Val(answered)) /\ Val(answered).code = 1
    /\ \E c \in Callers : tpc[c] = "done" /\ top[c] = "refresh" /\ tresult[c] = Some(FALSE)

\* With the credentials c, user id or refresh token is missing and the cookie data do
\* not yield both.
Underivable(c) ==
    /\ ~TruthyStr(c.user_id) \/ ~TruthyStr(c.refresh_token)
    /\ ~TruthyStr(ParseUserIdFromCookies(c)) \/ ~TruthyStr(ParseRefreshTokenFromCookies(c))

\* Task c comes in this step to hold the lock and to pass refresh_token's double
\* check: the token is expired or absent; ensure_valid_token calls refresh_token only
\* for an expired token.
RefreshGoesOn(c) ==
    /\ tpc[c] \in {"idle", "wait"}
    /\ tpc'[c] \in {"net", "done"}
    /\ IF tpc[c] = "idle" /\ top'[c] = "ensure" THEN IsTokenExpired(cfg, now)
       ELSE IsTokenExpired(cfg, now) \/ cfg.current_token = None

C28_TokenTtlAndIssueTimeTogether ==
    [][\A c \in Callers :
          Answered(c, {"transport_error", "http_error", "bad_json", "reply"})
              => \/ /\ tresult'[c] = Some(TRUE)
                    /\ cfg'.current_token = Some(netCalls)
                    /\ cfg'.token_valid_time # None
                    /\ cfg'.token_updated_at = Some(now)
                 \/ /\ tresult'[c] = Some(FALSE)
                    /\ cfg'.current_token = cfg.current_token
                    /\ cfg'.token_valid_time = cfg.token_valid_time
                    /\ cfg'.token_updated_at = cfg.token_updated_at]_vars

\* C35: the credential state is written only by a task that holds the refresh lock:
\* in every step that changes it, either the task whose request is in flight holds
\* the lock and its request is answered, or a task takes the free lock in this step
\* and runs refresh_token up to its request or its return.
C35_CredentialsWrittenUnderLock ==
    [][cfg' # cfg
          => \E c \in Callers :
                 \/ /\ tpc[c] = "net"
                    /\ lockHolder = Some(c)
                    /\ tpc'[c] = "done"
                 \/ /\ tpc[c] \in {"idle", "wait"}
                    /\ lockHolder = None
                    /\ tpc'[c] \in {"net", "done"}
                    /\ tpc'[c] = "net" => lockHolder' = Some(c)]_vars

\* A refresh has written a new token while another task was waiting for the lock.
C35_Witness ==
    \E a, b \in Callers :
        /\ a # b
        /\ tpc[a] = "done" /\ tresult[a] = Some(TRUE)
        /\ okCalls = 1 /\ cfg.current_token = Some(netCalls)
        /\ tpc[b] = "wait"

\* C39, as stated: refresh_token changes neither a user id nor a refresh token that
\* is configured: no step changes a user_id or a refresh_token that is set.
C39_ConfiguredCredentialsKept ==
    [][/\ cfg.user_id # None => cfg'.user_id = cfg.user_id
       /\ cfg.refresh_token # None => cfg'.refresh_token = cfg.refresh_token]_vars

-----------------------------------------------------------------------------
(* Claims about the stream decoder, checked under SpecDecode. *)

\* The generator has ended after the transport reported the end of the body.
EndedAtEof == dec.phase \in {"done", "raised"} /\ endCause = "eof"

\* C8, as stated: whatever the sizes of the chunks a body arrives in, the decoder
\* yields the messages it yields when the body arrives as one chunk.
C8_SameMessagesForAnyChunking ==
    EndedAtEof => dec.out = ProcessSseStream(<<body>>).out

\* The data lines that carry a non-empty content field, and the text each carries.
ContentLines == {Lines.Hello, Lines.World, Lines.Accent}

ExpectedText(line) ==
    IF line = Lines.Hello THEN <<72, 101, 108, 108, 111>>
    ELSE IF line = Lines.World THEN <<32, 119, 111, 114, 108, 100>>
    ELSE <<233>>

\* C9, as stated: a body of k data lines with non-empty content and the end marker
\* gives exactly k Text messages, one per line and in line order; the lines "Hello"
\* and " world" give the aggregated text "Hello world".
C9_OneTextPerDataLine ==
    \A ls \in Bodies(ContentLines) \ {<<>>} :
        (EndedAtEof /\ body = JoinLines(ls \o <<Lines.Done>>, FALSE))
            => /\ dec.phase = "done"
               /\ Len(dec.out) = Len(ls)
               /\ \A i \in 1..Len(ls) :
                      /\ dec.out[i].type = "text"
                      /\ dec.out[i].text.str = ExpectedText(ls[i])
               /\ ls = <<Lines.Hello, Lines.World>>
                      => ExtractTextContent(dec.out)
                             = [str |-> <<72, 101, 108, 108, 111, 32, 119, 111, 114, 108, 100>>]

\* The data lines whose payload is valid JSON of none of the known shapes: an
\* object, a number, a string.
UnknownShapeLines == {Lines.Unknown, Lines.Number, Lines.String}

\* C10, as stated: each line whose payload is valid JSON of no known shape yields
\* exactly one SYSTEM message wrapping the payload, and does not end the stream.
C10_OneSystemMessagePerUnknownLine ==
    \A ls \in Bodies(UnknownShapeLines) \ {<<>>} :
        (dec.phase \in {"done", "raised"} /\ endCause \in {"eof", "exception"}
             /\ body = JoinLines(ls, FALSE))
            => /\ endCause = "eof"
               /\ dec.phase = "done"
               /\ Len(dec.out) = Len(ls)
               /\ \A i \in 1..Len(ls) :
                      /\ dec.out[i].type = "system"
                      /\ dec.out[i].raw
                             = Some(SubSeq(ls[i], Len(K.DATA_PREFIX) + 1, Len(ls[i])))

\* The lines of the bodies with a line that is no JSON among lines that carry content.
GarbageLines == {Lines.Hello, Lines.World, Lines.Garbage}

\* C11, as stated: a line that is no JSON is counted as a failure, adds no message
\* and does not end the stream; the messages of the other lines are yielded and no
\* exception leaves the decoder.
C11_NonJsonLineNeverAborts ==
    \A ls \in Bodies(GarbageLines) :
        (/\ dec.phase \in {"done", "raised"}
         /\ endCause = "eof"
         /\ body = JoinLines(ls, FALSE)
         /\ \E i \in 1..Len(ls) : ls[i] = Lines.Garbage)
            => /\ dec.phase = "done"
               /\ dec.failed_parse_count >= Cardinality({i \in 1..Len(ls) : ls[i] = Lines.Garbage})
               /\ \A k \in 1..Len(dec.out) : dec.out[k].type = "text"
               /\ \A i \in 1..Len(ls) :
                      ls[i] # Lines.Garbage
                          => \E k \in 1..Len(dec.out) :
                                 dec.out[k].raw
                                     = Some(SubSeq(ls[i], Len(K.DATA_PREFIX) + 1, Len(ls[i])))

\* The text the TEXT messages of the decoder's output carry, one after the other.
TextsYielded == ContentParts(SelectSeq(dec.out, LAMBDA m : m.type = "text"), 1)

\* A text without its white space.
NonBlank(s) == SelectSeq(s, LAMBDA c : ~IsSpace(c))

\* C12, as stated: the aggregated text of a non-empty list of messages is the
\* concatenation, in order, of the texts of its TEXT messages.
C12_ConcatenationOfTexts ==
    (dec.phase = "done" /\ dec.out # <<>>)
        => ExtractTextContent(dec.out) = [str |-> TextsYielded]

\* C12, amended: the aggregated text is made of the texts of the TEXT messages only,
\* in order, with the white space cleaned: nothing but white space is taken away or
\* added, no line of the result begins or ends with white space, no two lines in a
\* row are empty, and a text of one line that neither begins nor ends with white
\* space is returned as it is.
C12_CleanedConcatenationOfTexts ==
    (dec.phase = "done" /\ dec.out # <<>>)
        => LET Cleaned(r, ls) ==
                   /\ NonBlank(r) = NonBlank(TextsYielded)
                   /\ \A i \in 1..Len(ls) : Strip(ls[i]) = ls[i]
                   /\ \A i \in 1..(Len(ls) - 1) : ls[i] # <<>> \/ ls[i + 1] # <<>>
                   /\ (Strip(TextsYielded) = TextsYielded /\ IndexOf(TextsYielded, 10, 1) = 0)
                          => r = TextsYielded
           IN  Cleaned(ExtractTextContent(dec.out).str,
                       SplitLines(ExtractTextContent(dec.out).str, 1))

\* A text, a knowledge-base message and a text again were yielded, and the aggregated
\* text is that of the two texts; and a text with a run of blank lines was cleaned.
C12_Witness ==
    /\ dec.phase = "done"
    /\ Len(dec.out) >= 3
    /\ dec.out[1].type = "text" /\ dec.out[2].type = "knowledgeBase"
    /\ dec.out[3].type = "text"
    /\ ExtractTextContent(dec.out).str = <<72, 101, 108, 108, 111, 72, 101, 108, 108, 111>>

\* C13, as stated: the list of knowledge references built from the messages holds
\* each media once, in the order of its first occurrence.
C13_EachMediaOnce ==
    dec.phase = "done"
        => LET Once(items) ==
                   \A i, j \in 1..Len(items) : items[i].id = items[j].id => i = j
           IN  Once(ExtractKnowledgeInfo(dec.out, 1))

\* C24, as stated: a reading in which the initial-silence timeout or the idle timeout
\* between chunks was exceeded is classified as a timeout error, whether or not
\* messages were parsed before: when the reading was ended by the manual timeout or
\* by the transport's TimeoutError, the decoder ends with a timeout as its stream
\* error.
C24_TimeoutIsClassifiedAsTimeout ==
    (dec.phase \in {"done", "raised"} /\ endCause \in {"timeout", "manual_timeout"})
        => dec.stream_error \in {"sse_timeout", "manual_timeout"}

\* C29, as stated: an envelope whose k entries each carry non-empty content yields k
\* Text messages, one per entry and in entry order; the body of the envelope line
\* with the entries "A" and "B" and the end marker, read to its end, gives the Text
\* message "A" and then the Text message "B".
C29_OneTextPerEnvelopeEntry ==
    (EndedAtEof /\ body = JoinLines(<<Lines.Envelope, Lines.Done>>, FALSE))
        => /\ dec.phase = "done"
           /\ Len(dec.out) = 2
           /\ \A i \in 1..2 : dec.out[i].type = "text"
           /\ dec.out[1].text.str = <<65>>
           /\ dec.out[2].text.str = <<66>>

\* The lines whose payload is a JSON object.
ObjectLines ==
    {Lines.Hello, Lines.World, Lines.Accent, Lines.Blanks, Lines.Both, Lines.Unknown,
     Lines.Envelope, Lines.Knowledge, Lines.Media, Lines.Document}

\* The payload of a line, loaded as JSON.
PayloadOf(line) ==
    JsonLoads(IF StartsWith(line, K.DATA_PREFIX)
              THEN SubSeq(line, Len(K.DATA_PREFIX) + 1, Len(line)) ELSE line).v

\* The type of the message the first shape a payload matches stands for, in the order
\* envelope, content field, alternate content field, knowledge-base stage, question
\* and answer, and else SYSTEM.
TypeOfFirstShape(x) ==
    IF JHas(x, K.msgs) /\ JGet(x, K.msgs).t = "arr" THEN "text"
    ELSE IF JHas(x, K.content) THEN "text"
    ELSE IF JHas(x, K.Text) THEN "text"
    ELSE IF JHas(x, K.type) /\ JGet(x, K.type) = [t |-> "str", s |-> K.knowledgeBase]
         THEN "knowledgeBase"
    ELSE IF JHas(x, K.question) /\ JHas(x, K.answer) THEN "text"
    ELSE "system"

\* C30, as stated: a payload is classified by the first shape it matches, and every
\* payload that is a JSON object yields a message of one of the kinds: a body of one
\* line whose payload is an object, read to its end, has no line that failed, and
\* its first message is of the type of the first shape the payload matches; the
\* payload with both content fields gives the text of the first of them.
C30_FirstShapeDecidesAndEveryObjectYields ==
    \A line \in ObjectLines :
        (EndedAtEof /\ body = JoinLines(<<line>>, FALSE))
            => /\ dec.failed_parse_count = 0
               /\ Len(dec.out) >= 1
               /\ dec.out[1].type = TypeOfFirstShape(PayloadOf(line))
               /\ line = Lines.Both => dec.out[1].text.str = <<67>>

\* C31, as stated: the whole-response fallback runs only when few messages were
\* parsed for the chunks received, and a stream whose lines were parsed into
\* messages does not trigger it: for a body of data lines with content and the end
\* marker, read to its end with every line parsed into its message, the fallback has
\* not run.
C31_NoFallbackAfterNormalParsing ==
    \A ls \in Bodies(ContentLines) \ {<<>>} :
        (EndedAtEof /\ body = JoinLines(ls \o <<Lines.Done>>, FALSE))
            => dec.fallback = "none"

\* C32: at the end of the stream the decoder flushes the undecoded bytes and parses
\* the lines left in the buffer. A body of data lines with content whose last line
\* has no line feed, read to its end, yields the message of every line, the last one
\* included, in line order and before any other message; and when the body ends
\* inside a character, no byte stays undecoded, the text received ends with the
\* replacement character, and the line it ends is parsed and counted as failed.
C32_UnterminatedLastLineIsParsed ==
    /\ \A ls \in Bodies(ContentLines) \ {<<>>} :
           (EndedAtEof /\ body = JoinLines(ls, TRUE))
               => /\ Len(dec.out) >= Len(ls)
                  /\ \A i \in 1..Len(ls) :
                         /\ dec.out[i].type = "text"
                         /\ dec.out[i].text.str = ExpectedText(ls[i])
    /\ \A ls \in Bodies(ContentLines) :
           (EndedAtEof /\ Len(ls) < MaxLines /\ body = JoinLines(ls \o <<Lines.Cut>>, TRUE))
               => /\ dec.pending = <<>>
                  /\ dec.full_response[Len(dec.full_response)] = ReplacementChar
                  /\ dec.failed_parse_count >= 1
                  /\ Len(dec.out) >= Len(ls)
                  /\ \A i \in 1..Len(ls) : dec.out[i].text.str = ExpectedText(ls[i])

\* The body of "Hello" and " world", the last line without its line feed, has
\* arrived byte by byte and ended, and " world" is the second message.
C32_Witness ==
    /\ EndedAtEof
    /\ body = JoinLines(<<Lines.Hello, Lines.World>>, TRUE)
    /\ chunkSize = 1
    /\ dec.phase = "done"
    /\ dec.out[2].text.str = ExpectedText(Lines.World)

\* The reading of the stream has ended and the finally block has run.
ReadingEnded == dec.phase \in {"done", "raised"}

C36_NoLineYieldedTwice ==
    \A ls \in Bodies(ContentLines) \ {<<>>} :
        (EndedAtEof /\ body = JoinLines(ls \o <<Lines.Done>>, FALSE))
            => \A i \in 1..Len(ls) :
                   Cardinality({k \in 1..Len(dec.out) :
                                   dec.out[k].raw
                                       = Some(SubSeq(ls[i], Len(K.DATA_PREFIX) + 1, Len(ls[i])))})
                       <= Cardinality({j \in 1..Len(ls) : ls[j] = ls[i]})

-----------------------------------------------------------------------------
(* Claims about the client's headers, checked under SpecClient. *)

\* The values of the IMA-TOKEN fields of a cookie text: the text is cut at every
\* ';', a part stripped of blanks that begins with IMA-TOKEN= is a token field.
TokenFieldsOf(text) ==
    LET field == <<73, 77, 65, 45, 84, 79, 75, 69, 78, 61>>
        cuts == {0, Len(text) + 1} \cup {i \in 1..Len(text) : text[i] = 59}
        Part(a) == Strip(SubSeq(text, a + 1, MinOf({c \in cuts : c > a}) - 1))
    IN  {SubSeq(Part(a), Len(field) + 1, Len(Part(a))) :
            a \in {c \in cuts : c <= Len(text) /\ StartsWith(Part(c), field)}}

\* The token of the arguments, when one is present.
TokenGiven ==
    headerArgs.current_token # None /\ headerArgs.current_token # Some(<<>>)

\* C34, as stated: the headers built carry a bearer authorization header exactly
\* when a current token is present, and then the cookie sent has a token field, each
\* of its token fields holds the current token, and none holds another value.
C34_CookieCarriesCurrentToken ==
    headers # None
        => /\ Val(headers).authorization # None <=> TokenGiven
           /\ TokenGiven
                 => /\ Val(headers).authorization
                          = Some(<<66, 101, 97, 114, 101, 114, 32>>
                                     \o Val(headerArgs.current_token))
                    /\ TokenFieldsOf(Val(headers).x_ima_cookie)
                          = {Val(headerArgs.current_token)}

\* The ClientSession objects whose closed flag is not set.
OpenSessions == {s \in 1..http.made : s \notin http.closed}

\* C40: the client has at most one open HTTP session, and it is self.session; a
\* session is made only by a call that finds none or a closed one; tasks holding open
\* sessions hold the same one; a call never returns a session that was closed before
\* it, so the call after close() makes a new one.
C40_AtMostOneOpenSession ==
    /\ [](/\ Cardinality(OpenSessions) <= 1
          /\ \A s \in OpenSessions : http.session = Some(s)
          /\ \A a, b \in Callers :
                (/\ http.held[a] # None /\ http.held[b] # None
                 /\ Val(http.held[a]) \notin http.closed
                 /\ Val(http.held[b]) \notin http.closed)
                => http.held[a] = http.held[b])
    /\ [][/\ http'.made # http.made
             => /\ http.session = None \/ Val(http.session) \in http.closed
                /\ http'.made = http.made + 1
                /\ http'.session = Some(http'.made)
          /\ (http.session # None /\ Val(http.session) \notin http.closed)
             => http'.session = http.session
          /\ \A c \in Callers :
                http'.held[c] # http.held[c]
                => /\ http'.held[c] = http'.session
                   /\ Val(http'.held[c]) \notin http.closed]_vars

\* Both tasks hold the second session, made after the first was closed, and it is open.
C40_Witness ==
    /\ http.made = 2
    /\ 1 \in http.closed
    /\ 2 \notin http.closed
    /\ \A c \in Callers : http.held[c] = Some(2)

====
